---- MODULE Spec2Model ----
(***************************************************************************)
(* Model of the WOPI host of collabora-standalone-with-ltpa               *)
(* (wopi-server/src/routes/wopi.js, utils/crypto.js, the database schema). *)
(* Every request handler is an async function: between two awaits other    *)
(* handlers run.  A request is therefore a small process whose pc is the    *)
(* await it is suspended at; one step performs the awaited query or file    *)
(* operation and the synchronous code up to the next await.                *)
(* Time is counted in minutes.                                             *)
(***************************************************************************)
EXTENDS Integers, Sequences, FiniteSets, TLC

\* ------------------------------------------------------------------ bounds
MaxTime == 45
TickStep == 15
MaxVersion == 3
MaxRequests == 3
TokenStep == 480
MaxClock == 1920
MaxNameLen == 2
MaxLtpaClock == 3
DcTickStep == 1800000
MaxUserLen == 3
MaxDcTicks == 2

\* --------------------------------------------------------- program constants
LockTTL == 30
TokenMaxAge == 24 * 60
TokenExpiration == 2

\* ------------------------------------------------------------------ universe
Slots == {"r1", "r2"}
Users == {"u1", "u2"}
FileIds == {"f1", "f2", "f3"}
LockIds == {"a", "b"}
Undefined == "undefined"
Permissions == {"view", "edit", "admin"}
InitBytes == <<"o">>
Bodies == {<<"x">>, <<"y", "z">>}
NoFolder == "null"
\* the content of a path that does not exist on storage
Missing == <<"ENOENT">>

VARIABLES now, files, disk, snaps, file_versions, file_locks, storage_used,
          audit_log, verBytes, req, served,
          tk, auth_mode, accounts, dir, lg, mw,
          lt, ad, dc, fl

\* the LTPA service, the request to its admin routes, the discovery cache and
\* the search filter under test
more == <<lt, ad, dc, fl>>

\* what the WOPI routes neither read nor write: the token under test, AUTH_MODE,
\* the accounts of the users table, the directory server, the login request,
\* the request in the authentication middleware, and the above
other == <<tk, auth_mode, accounts, dir, lg, mw, more>>

vars == <<now, files, disk, snaps, file_versions, file_locks, storage_used,
          audit_log, verBytes, req, served, other>>

db == <<files, disk, snaps, file_versions, file_locks, storage_used, audit_log, verBytes>>

\* ------------------------------------------------------------------- tokens
\* process.env.WOPI_SECRET || 'default-secret', and a secret that is not ours
WopiSecret == "default-secret"
OtherSecret == "other-secret"

\* a text: JSON of an object or of null, or bytes that are no JSON
JsonNull == [fmt |-> "json", val |-> [kind |-> "null", obj |-> [k \in {"-"} |-> "-"]]]
JunkText == [fmt |-> "junk", val |-> [kind |-> "null", obj |-> [k \in {"-"} |-> "-"]]]

\* JSON.stringify without the NoTemplate properties
JsonStringifyNoPermissions(payload) ==
  [fmt |-> "json",
   val |-> [kind |-> "object",
            obj |-> [k \in {k \in DOMAIN payload \ {"permissions"} :
                              k = "timestamp" \/ payload[k] # Undefined} |-> payload[k]]]]

\* JSON.stringify(payload): a property whose value is NoTemplate is left out
JsonStringify(payload) ==
  [fmt |-> "json",
   val |-> [kind |-> "object",
            obj |-> [k \in {k \in DOMAIN payload :
                              k = "timestamp" \/ payload[k] # Undefined} |-> payload[k]]]]

\* obj[k] of a parsed object: NoTemplate for a property it does not have
Field(obj, k) == IF k \in DOMAIN obj THEN obj[k] ELSE Undefined

\* Buffer.from(CryptoJS.AES.encrypt(text, secret).toString()).toString('base64url')
AesEncrypt(text, secret) == [kind |-> "cipher", key |-> secret, text |-> text]

\* CryptoJS.AES.decrypt(Buffer.from(token, 'base64url').toString(), secret)
\* .toString(CryptoJS.enc.Utf8): the text under the right secret; under another
\* secret, or for a string that is no ciphertext, bytes that are no JSON (or a throw)
AesDecrypt(token, secret) ==
  IF token.kind = "cipher" /\ token.key = secret THEN token.text ELSE JunkText

\* a request without access_token, and a string that is no ciphertext
NoToken == [kind |-> "absent", key |-> "-", text |-> JunkText]
Garbage == [kind |-> "garbage", key |-> "-", text |-> JunkText]
\* null
NullPayload == [fileId |-> "-", userId |-> "-", permissions |-> "-"]

\* the nonce makes two tokens of one payload differ; nothing reads it
generateAccessToken(fileId, userId, permissions, t) ==
  LET payload == [fileId |-> fileId, userId |-> userId,
                  permissions |-> IF permissions = Undefined THEN "view" ELSE permissions,
                  timestamp |-> t]
  IN AesEncrypt(JsonStringify(payload), WopiSecret)

\* a check of the age that lets every token pass
TokenExpiredNever(payload, t) == FALSE

\* Date.now() - payload.timestamp > maxAge; NaN > maxAge, for a payload without
\* timestamp, is false
TokenExpired(payload, t) ==
  "timestamp" \in DOMAIN payload /\ t - payload["timestamp"] > TokenMaxAge

\* null for a token that does not decode, decrypt or parse (the catch), for
\* JSON null (payload.timestamp throws), and for a payload older than 24 h;
\* else the payload, of which the callers read fileId, userId and permissions
verifyAccessToken(token, t) ==
  IF token.kind = "absent" THEN NullPayload
  ELSE LET text == AesDecrypt(token, WopiSecret)
       IN IF text.fmt # "json" THEN NullPayload
          ELSE IF text.val.kind = "null" THEN NullPayload
          ELSE IF TokenExpired(text.val.obj, t) THEN NullPayload
          ELSE [fileId |-> Field(text.val.obj, "fileId"),
                userId |-> Field(text.val.obj, "userId"),
                permissions |-> Field(text.val.obj, "permissions")]

\* -------------------------------------------------------------------- names
Illegal == {"<", ">", ":", "\"", "/", "\\", "|", "?", "*"}

\* targetName.replace(/[<>:"/\\|?*]/g, '_')
CleanName(n) == [i \in 1..Len(n) |-> IF n[i] \in Illegal THEN "_" ELSE n[i]]

\* name.replace(/\.[^/.]+$/, ''): drop a final ".ext" whose ext is non-empty
\* and holds neither '/' nor '.'
StripExt(n) ==
  LET dots == {i \in 1..Len(n) : n[i] = "."
                 /\ i < Len(n)
                 /\ \A j \in (i+1)..Len(n) : n[j] \notin {"/", "."}}
  IN IF dots = {} THEN n
     ELSE SubSeq(n, 1, (CHOOSE i \in dots : \A k \in dots : i <= k) - 1)

\* ----------------------------------------------------------------- database
BlankFile == [present |-> FALSE, owner_id |-> "-", original_filename |-> <<>>,
              size |-> 0, version |-> 0, is_deleted |-> FALSE,
              parent_folder_id |-> NoFolder]

NewFile(owner, name, size, folder) ==
  [present |-> TRUE, owner_id |-> owner, original_filename |-> name,
   size |-> size, version |-> 1, is_deleted |-> FALSE, parent_folder_id |-> folder]

\* SELECT * FROM files WHERE id = $1 AND is_deleted = false
FindFileDeletedToo(f) == IF files[f].present THEN {files[f]} ELSE {}
FindFile(f) == IF files[f].present /\ ~files[f].is_deleted THEN {files[f]} ELSE {}

\* SELECT * FROM file_locks WHERE file_id = $1 AND expires_at > NOW()
LiveLocksOfAnyAge(f) == {l \in file_locks : l.file_id = f}
LiveLocks(f) == {l \in file_locks : l.file_id = f /\ l.expires_at > now}

\* SELECT * FROM file_locks WHERE file_id = $1
AnyLocks(f) == {l \in file_locks : l.file_id = f}

\* INSERT ... without the ON CONFLICT clause and without the UNIQUE(file_id) index
UpsertLockNoConflict(locks, f, lockId, user, t) ==
  locks \cup {[file_id |-> f, lock_id |-> lockId, locked_by |-> user,
               expires_at |-> t + LockTTL]}

\* INSERT INTO file_locks ... ON CONFLICT (file_id) DO UPDATE SET ...
UpsertLock(locks, f, lockId, user, t) ==
  {l \in locks : l.file_id # f}
    \cup {[file_id |-> f, lock_id |-> lockId, locked_by |-> user,
           expires_at |-> t + LockTTL]}

\* UPDATE file_locks SET expires_at = NOW() + INTERVAL '30 minutes' WHERE file_id = $1
ExtendLock(locks, f, t) ==
  {IF l.file_id = f THEN [l EXCEPT !.expires_at = t + LockTTL] ELSE l : l \in locks}

\* a DELETE that removes no row
DeleteLockNothing(locks, f) == locks

\* DELETE FROM file_locks WHERE file_id = $1
DeleteLock(locks, f) == {l \in locks : l.file_id # f}

\* audit_log is append-only and nothing reads it: the variable keeps its newest row
NoAudit == [user_id |-> "-", action |-> "-", resource_id |-> "-"]

\* INSERT INTO audit_log (user_id, action, resource_type, resource_id, ...)
AuditRow(user, action, resource) ==
  [user_id |-> user, action |-> action, resource_id |-> resource]

\* ----------------------------------------------------------------- requests
NoInfo == [Size |-> 0, Version |-> 0, UserCanWrite |-> FALSE, UserCanRename |-> FALSE,
           LockValue |-> "null"]

\* a request: its inputs (op .. overwrite), the handler's locals (file .. newId),
\* its response (status .. info); dirty records that one of its steps changed
\* stored state
Idle == [pc |-> "idle", op |-> "-", fileId |-> "-", tok |-> NullPayload,
         lock |-> Undefined, body |-> <<>>, reqName |-> <<>>,
         relTarget |-> <<>>, sugTarget |-> <<>>, overwrite |-> FALSE,
         file |-> BlankFile, size |-> 0, target |-> <<>>, existing |-> "-", newId |-> "-",
         dirty |-> FALSE,
         status |-> 0, xlock |-> Undefined, itemVersion |-> 0, sent |-> <<>>,
         name |-> <<>>, info |-> NoInfo]

InFlight(s) == req[s].pc \notin {"idle", "done"}

\* res.status(code)...: the response ends the request; its locals are dropped
Respond(r, code) ==
  [Idle EXCEPT !.pc = "done", !.op = r.op, !.fileId = r.fileId,
               !.lock = r.lock, !.dirty = r.dirty, !.status = code]

RespondLock(r, code, value) == [Respond(r, code) EXCEPT !.xlock = value]

\* ---------------------------------------------------------------- LTPA tokens
\* token content is a string: a sequence of characters, where the base64 of an
\* HMAC-SHA1 digest is one item that names its key and the text it was
\* computed over (base64 has none of the characters the parser looks for)
Ch(c) == [k |-> "c", c |-> c, key |-> "-", over |-> <<>>]
Str(cs) == [i \in 1..Len(cs) |-> Ch(cs[i])]
Hmac(key, text) == <<[k |-> "h", c |-> "", key |-> key, over |-> text]>>

\* String.prototype.indexOf(c), 0 when there is none (the source's -1)
IndexOf(s, c) ==
  IF \E i \in 1..Len(s) : s[i] = Ch(c)
  THEN CHOOSE i \in 1..Len(s) : s[i] = Ch(c) /\ \A j \in 1..(i - 1) : s[j] # Ch(c)
  ELSE 0

\* String.prototype.lastIndexOf(c)
LastIndexOf(s, c) ==
  IF \E i \in 1..Len(s) : s[i] = Ch(c)
  THEN CHOOSE i \in 1..Len(s) : s[i] = Ch(c) /\ \A j \in (i + 1)..Len(s) : s[j] # Ch(c)
  ELSE 0

\* String.prototype.split(c)
RECURSIVE Split(_, _)
Split(s, c) ==
  LET i == IndexOf(s, c)
  IN IF i = 0 THEN <<s>>
     ELSE <<SubSeq(s, 1, i - 1)>> \o Split(SubSeq(s, i + 1, Len(s)), c)

\* String.prototype.startsWith, includes
StartsWith(s, p) == Len(s) >= Len(p) /\ SubSeq(s, 1, Len(p)) = p
Includes(s, p) == \E i \in 1..(Len(s) - Len(p) + 1) : SubSeq(s, i, i + Len(p) - 1) = p

\* String.prototype.trim
RECURSIVE Trim(_)
Trim(s) ==
  IF s = <<>> THEN s
  ELSE IF s[1] = Ch(" ") THEN Trim(Tail(s))
  ELSE IF s[Len(s)] = Ch(" ") THEN Trim(SubSeq(s, 1, Len(s) - 1))
  ELSE s

\* String.prototype.toLowerCase, on the letters of the attribute types
LowerOf(x) == IF x = Ch("C") THEN Ch("c") ELSE IF x = Ch("N") THEN Ch("n")
              ELSE IF x = Ch("U") THEN Ch("u") ELSE x
ToLowerCase(s) == [i \in 1..Len(s) |-> LowerOf(s[i])]

\* the decimal digits of a number, and parseInt(s, 10): the number its leading
\* digits spell, NaN without one
Digits == <<"0", "1", "2", "3", "4", "5", "6", "7", "8", "9">>
NaN == 0 - 1
IsDigit(x) == \E d \in 1..10 : x = Ch(Digits[d])
DigitValue(x) == (CHOOSE d \in 1..10 : x = Ch(Digits[d])) - 1
RECURSIVE NumberToString(_)
NumberToString(n) ==
  IF n < 10 THEN Str(<<Digits[n + 1]>>)
  ELSE NumberToString(n \div 10) \o Str(<<Digits[(n % 10) + 1]>>)
RECURSIVE ParseDigits(_, _)
ParseDigits(s, acc) ==
  IF s = <<>> \/ ~IsDigit(s[1]) THEN acc
  ELSE ParseDigits(Tail(s), 10 * acc + DigitValue(s[1]))
ParseInt(s) == IF s = <<>> \/ ~IsDigit(s[1]) THEN NaN ELSE ParseDigits(s, 0)

\* Date.now() > expireTime, false for NaN
IsExpired(t, expireTime) == expireTime # NaN /\ t > expireTime

\* this.keys: what deriveKeys makes of config.secretKey, null without one; a
\* secret is its name and whether it has 24 bytes
NoSecret == [id |-> "", long |-> FALSE]
NoKeys == [present |-> FALSE, desKey |-> "-", aesKey |-> "-", hmacKey |-> "-",
           rawSecret |-> NoSecret]
deriveKeys(secretKey) ==
  IF secretKey = NoSecret THEN NoKeys
  ELSE [present |-> TRUE, desKey |-> secretKey.id, aesKey |-> secretKey.id,
        hmacKey |-> secretKey.id, rawSecret |-> secretKey]

\* an LTPA token as it arrives: nothing, or the base64 of an IV and a
\* ciphertext under a cipher and key, URL-encoded or not
NoLtpaToken == [present |-> FALSE, cipher |-> "-", key |-> "-", text |-> <<>>,
                urlEncoded |-> FALSE]
LtpaGarbage == [NoLtpaToken EXCEPT !.present = TRUE]

\* encryptToken: 3DES-CBC under keys.desKey, base64
encryptToken(data, keys) ==
  [present |-> TRUE, cipher |-> "des-ede3-cbc", key |-> keys.desKey, text |-> data,
   urlEncoded |-> FALSE]

\* encodeURIComponent, decodeURIComponent of a token
EncodeURIComponent(token) == [token EXCEPT !.urlEncoded = TRUE]
DecodeURIComponent(token) == [token EXCEPT !.urlEncoded = FALSE]

\* the check every decryption method makes of its plaintext
LooksLikeLtpa(content) ==
  /\ Includes(content, Str(<<"%">>))
  /\ Includes(content, Str(<<"u", "s", "e", "r", ":">>)) \/ Includes(content, Str(<<"=">>))

\* decryptToken: 3DES under desKey, AES-128 under aesKey, 3DES under the first
\* 24 bytes of the raw secret; the plaintext of the first method that gives
\* one that looks like token content; Failed stands for the throw
Failed == <<[k |-> "x", c |-> "", key |-> "-", over |-> <<>>]>>
decryptToken(token, keys) ==
  IF ~keys.present THEN Failed
  ELSE IF token.urlEncoded THEN Failed
  ELSE IF /\ token.cipher = "des-ede3-cbc" /\ token.key = keys.desKey
          /\ LooksLikeLtpa(token.text) THEN token.text
  ELSE IF /\ token.cipher = "aes-128-cbc" /\ token.key = keys.aesKey
          /\ LooksLikeLtpa(token.text) THEN token.text
  ELSE IF /\ keys.rawSecret.long
          /\ token.cipher = "des-ede3-cbc-raw" /\ token.key = keys.rawSecret.id
          /\ LooksLikeLtpa(token.text) THEN token.text
  ELSE Failed

\* LTPA_DOMINO_USER_FORMAT
UserFormats == {"cn", "uid", "dn"}

\* the value of the first component of the list whose type, trimmed and in
\* lower case, is among types; NoValue when there is none
NoValue == Failed
RECURSIVE FirstValueOf(_, _)
FirstValueOf(rdns, types) ==
  IF rdns = <<>> THEN NoValue
  ELSE LET eqIdx == IndexOf(rdns[1], "=")
           key == ToLowerCase(Trim(SubSeq(rdns[1], 1, eqIdx - 1)))
           value == Trim(SubSeq(rdns[1], eqIdx + 1, Len(rdns[1])))
       IN IF eqIdx # 0 /\ key \in types THEN value
          ELSE FirstValueOf(Tail(rdns), types)

\* _extractUsernameFromDN
extractUsernameFromDN(dn, format) ==
  IF dn = <<>> THEN <<>>
  ELSE IF format = "dn" THEN dn
  ELSE IF IndexOf(dn, "/") # 0 /\ IndexOf(dn, ",") = 0
  THEN LET parts == Split(dn, "/")
           cn == FirstValueOf(parts, {Str(<<"c", "n">>)})
           firstEq == IndexOf(parts[1], "=")
       IN IF format = "cn" /\ cn # NoValue THEN cn
          ELSE IF firstEq # 0 THEN Trim(SubSeq(parts[1], firstEq + 1, Len(parts[1])))
          ELSE parts[1]
  ELSE LET rdns == Split(dn, ",")
           wanted == FirstValueOf(rdns, IF format = "cn" THEN {Str(<<"c", "n">>)}
                                        ELSE {Str(<<"u", "i", "d">>)})
           fallback == FirstValueOf(rdns, {Str(<<"c", "n">>), Str(<<"u", "i", "d">>)})
       IN IF wanted # NoValue THEN wanted
          ELSE IF fallback # NoValue THEN fallback
          ELSE dn

\* the key:value pairs of the attribute string, those without ':' left out
RECURSIVE ParseAttrPairs(_)
ParseAttrPairs(pairs) ==
  IF pairs = <<>> THEN <<>>
  ELSE LET colonIdx == IndexOf(pairs[1], ":")
       IN (IF colonIdx # 0
           THEN << <<SubSeq(pairs[1], 1, colonIdx - 1),
                     SubSeq(pairs[1], colonIdx + 1, Len(pairs[1]))>> >>
           ELSE <<>>) \o ParseAttrPairs(Tail(pairs))

\* new Date(expireTime).toISOString() in the argument of ltpaDebug, evaluated
\* whether or not debugging is on: a RangeError for a time that is not a number
ToISOStringThrowsNever(time) == FALSE
ToISOStringThrows(time) == time = NaN

\* parseTokenContent: content%expiry%signature, the user part u:user:realm/dn
\* with $key:value attributes, or a bare DN
NoPrincipal == [username |-> Failed, realm |-> <<>>, dn |-> <<>>, attributes |-> <<>>,
                expireTime |-> NaN]
parseTokenContent(content0, t, format, configRealm) ==
  LET content == Trim(content0)
      parts == Split(content, "%")
      userPart == parts[1]
      expireTime == ParseInt(parts[2])
      signature == IF Len(parts) >= 3 THEN parts[3] ELSE <<>>
      prefix == Str(<<"u", ":", "u", "s", "e", "r", ":">>)
      prefixed == StartsWith(userPart, prefix)
      userInfo == SubSeq(userPart, Len(prefix) + 1, Len(userPart))
      slashIndex == IndexOf(userInfo, "/")
      realm == IF slashIndex # 0 THEN SubSeq(userInfo, 1, slashIndex - 1) ELSE <<>>
      dn0 == IF slashIndex # 0 THEN SubSeq(userInfo, slashIndex + 1, Len(userInfo))
             ELSE userInfo
      dollarIndex == IndexOf(dn0, "$")
      dn1 == IF dollarIndex # 0 THEN SubSeq(dn0, 1, dollarIndex - 1) ELSE dn0
      attributes == IF prefixed /\ dollarIndex # 0
                    THEN ParseAttrPairs(Split(SubSeq(dn0, dollarIndex + 1, Len(dn0)), "$"))
                    ELSE <<>>
      bare == ~prefixed /\ IndexOf(userPart, "=") # 0
      dn == IF prefixed THEN dn1 ELSE IF bare THEN userPart ELSE <<>>
  IN IF Len(parts) < 2 \/ ToISOStringThrows(expireTime)
     THEN [failed |-> TRUE, username |-> <<>>, realm |-> <<>>,
           dn |-> <<>>, attributes |-> <<>>, expireTime |-> NaN,
           signature |-> <<>>, isExpired |-> FALSE]
     ELSE [failed |-> FALSE,
           username |-> IF prefixed \/ bare THEN extractUsernameFromDN(dn, format) ELSE <<>>,
           realm |-> IF prefixed /\ realm # <<>> THEN realm ELSE configRealm,
           dn |-> dn,
           attributes |-> attributes,
           expireTime |-> expireTime,
           signature |-> signature,
           isExpired |-> IsExpired(t, expireTime)]

\* a signature that differs from the recomputed HMAC is logged, not refused
MismatchRejectsToken(expectedSig, signature) == expectedSig # signature
MismatchRejects(expectedSig, signature) == FALSE

\* validateToken at time t: null (NoPrincipal) for no token, from the catch,
\* and for an expired token
validateToken(token, t, keys, format, configRealm) ==
  IF ~token.present THEN NoPrincipal
  ELSE LET content == decryptToken(DecodeURIComponent(token), keys)
           tokenData == parseTokenContent(content, t, format, configRealm)
           contentWithoutSig == SubSeq(content, 1, LastIndexOf(content, "%") - 1)
           expectedSig == Hmac(keys.hmacKey, contentWithoutSig)
       IN IF content = Failed THEN NoPrincipal
          ELSE IF tokenData.failed THEN NoPrincipal
          ELSE IF tokenData.isExpired THEN NoPrincipal
          ELSE IF /\ tokenData.signature # <<>> /\ keys.present
                  /\ MismatchRejects(expectedSig, tokenData.signature) THEN NoPrincipal
          ELSE [username |-> tokenData.username, realm |-> tokenData.realm,
                dn |-> tokenData.dn, attributes |-> tokenData.attributes,
                expireTime |-> tokenData.expireTime]

\* attribute maps as lists of key and value, in insertion order
RECURSIVE AttrString(_)
AttrString(attributes) ==
  IF attributes = <<>> THEN <<>>
  ELSE attributes[1][1] \o Str(<<":">>) \o attributes[1][2]
         \o (IF Len(attributes) > 1 THEN Str(<<"$">>) \o AttrString(Tail(attributes))
             ELSE <<>>)

\* generateToken at time t, with tokenExpiration seconds of life
generateToken(username, attributes, t, keys, configRealm, tokenExpiration) ==
  LET expireTime == t + tokenExpiration
      user == Str(<<"u", ":", "u", "s", "e", "r", ":">>) \o configRealm
                \o Str(<<"/">>) \o username
      withAttrs == IF attributes # <<>> THEN user \o Str(<<"$">>) \o AttrString(attributes)
                   ELSE user
      content == withAttrs \o Str(<<"%">>) \o NumberToString(expireTime)
      signature == Hmac(keys.hmacKey, content)
  IN encryptToken(content \o Str(<<"%">>) \o signature, keys)


\* -------------------------------------------------------- the discovery service
\* a JavaScript object as the sequence of its own <<key, value>> pairs in
\* insertion order; a value is a record with a kind
NoTemplate == [kind |-> "undefined", host |-> "-", path |-> "-", query |-> FALSE]
HasOwn(obj, key) == \E i \in DOMAIN obj : obj[i][1] = key
OwnValue(obj, key) == obj[CHOOSE i \in DOMAIN obj : obj[i][1] = key][2]
SetProperty(obj, key, value) ==
  IF HasOwn(obj, key)
  THEN [i \in DOMAIN obj |-> IF obj[i][1] = key THEN <<key, value>> ELSE obj[i]]
  ELSE Append(obj, <<key, value>>)
\* obj[key]: the own property, else what Object.prototype has under that name
ObjectPrototype == {"constructor", "__proto__"}
GetProperty(obj, key) ==
  IF HasOwn(obj, key) THEN OwnValue(obj, key)
  ELSE IF key \in ObjectPrototype THEN [NoTemplate EXCEPT !.kind = "inherited"]
  ELSE NoTemplate
Truthy(value) == value.kind # "undefined"

\* a urlsrc of the discovery document: its origin, its path and whether
\* placeholders follow a '?'
Urlsrc(host, path) == [kind |-> "string", host |-> host, path |-> path, query |-> TRUE]

\* one <action name ext urlsrc/> of an <app name>
Entry(app, name, ext, urlsrc) == [app |-> app, name |-> name, ext |-> ext, urlsrc |-> urlsrc]

DocBoth ==
  << Entry("calc", "edit", "ods", Urlsrc("COLLABORA_URL", "calc")),
     Entry("writer", "edit", "odt", Urlsrc("COLLABORA_URL", "writer")),
     Entry("writer", "view", "odt", Urlsrc("http://*:9980", "viewer")) >>
DocViewOnly == << Entry("writer", "view", "", Urlsrc("https://office", "viewer")) >>
DocEmpty == << >>
Docs == {DocBoth, DocViewOnly, DocEmpty}

\* parseDiscoveryXML: actions[name][ext] and actions[name][app] for every
\* action entry, in document order
RECURSIVE parseDiscoveryXML(_, _)
parseDiscoveryXML(xml, actions) ==
  IF xml = << >> THEN actions
  ELSE LET e == Head(xml)
           old == IF HasOwn(actions, e.name) THEN OwnValue(actions, e.name) ELSE << >>
           withExt == IF e.ext # "" THEN SetProperty(old, e.ext, e.urlsrc) ELSE old
           withApp == SetProperty(withExt, e.app, e.urlsrc)
       IN parseDiscoveryXML(Tail(xml), SetProperty(actions, e.name, withApp))

NoDiscovery == [present |-> FALSE, xml |-> << >>, actions |-> << >>, fetchedAt |-> 0]

CACHE_TTL == 60 * 60 * 1000

\* the test fetchDiscovery makes before it asks Collabora
CacheValidInclusive(cache, cacheTime, t) == cache.present /\ (t - cacheTime) <= CACHE_TTL
CacheValid(cache, cacheTime, t) == cache.present /\ (t - cacheTime) < CACHE_TTL

\* file names as their segments between dots
FileNames == { <<"a", "odt">>, <<"A", "ODT">>, <<"b", "xlsx">>, <<"a", "b", "zzz">>,
               <<"e", "constructor">> }
LowerCaseWord(w) == CASE w = "ODT" -> "odt" [] w = "A" -> "a" [] OTHER -> w
Extension(fileName) == LowerCaseWord(fileName[Len(fileName)])

appMappings(ext) ==
  CASE ext \in {"odt", "doc", "docx", "rtf", "txt", "html"} -> "writer"
    [] ext \in {"ods", "xls", "xlsx", "csv"} -> "calc"
    [] ext \in {"odp", "ppt", "pptx"} -> "impress"
    [] ext \in {"odg", "vsd", "vsdx"} -> "draw"
    [] OTHER -> ""

\* getEditorUrl after its fetchDiscovery returned
getEditorUrl(discovery, extension, action) ==
  IF ~discovery.present THEN NoTemplate
  ELSE IF ~HasOwn(discovery.actions, action) THEN NoTemplate
  ELSE LET actionUrls == OwnValue(discovery.actions, action)
           ext == LowerCaseWord(extension)
           appName == appMappings(ext)
       IN IF Truthy(GetProperty(actionUrls, ext)) THEN GetProperty(actionUrls, ext)
          ELSE IF appName # "" /\ Truthy(GetProperty(actionUrls, appName))
          THEN GetProperty(actionUrls, appName)
          ELSE IF Len(actionUrls) > 0 THEN actionUrls[1][2]
          ELSE NoTemplate

\* encodeURIComponent of a text
EncodeComponent(text) == [encoded |-> TRUE, text |-> text]

\* the base URL of a template: the part before '?', with COLLABORA_URL or any
\* http://host:9980 replaced by https://DOMAIN
BaseUrl(template) ==
  [host |-> IF template.host \in {"COLLABORA_URL", "http://*:9980"} THEN "https://DOMAIN"
            ELSE template.host,
   path |-> template.path]
FallbackBase == [host |-> "https://DOMAIN", path |-> "/browser/dist/cool.html"]
WopiSrc(fileId) == [host |-> "https://DOMAIN", path |-> "/wopi/files/", fileId |-> fileId]
EditorUrl(base, fileId, accessToken) ==
  [base |-> base, WOPISrc |-> EncodeComponent(WopiSrc(fileId)),
   access_token |-> EncodeComponent(accessToken)]
NoUrl == [base |-> [host |-> "-", path |-> "-"], WOPISrc |-> EncodeComponent("-"),
          access_token |-> EncodeComponent("-")]

\* the callers: every one can call fetchDiscovery, the first also
\* buildEditorUrl
DcSlots == {"d1", "d2"}
DcBuilders == {"d1"}

\* a call of fetchDiscovery or buildEditorUrl that is waiting for its fetch:
\* its arguments, the action its getEditorUrl asks for, whether that is the
\* second getEditorUrl, and the Date.now() its fetchDiscovery began with
DcCallIdle == [pc |-> "idle", op |-> "-", fileId |-> "-", fileName |-> <<"-">>,
               accessToken |-> "-", action |-> "-", second |-> FALSE, t |-> 0,
               cleared |-> FALSE]

\* what the last call that returned gave back
NoReturn == [flip |-> FALSE, op |-> "-", fileId |-> "-", fileName |-> <<"-">>,
             accessToken |-> "-", action |-> "-", remote |-> FALSE,
             discovery |-> NoDiscovery, template |-> NoTemplate, url |-> NoUrl,
             threw |-> FALSE, stale |-> FALSE]

\* buildEditorUrl with its template: a URL from the template or from the
\* fixed path; a template that is no string has no split method, and the
\* call throws
Finish(r, last, remote, template) ==
  [flip |-> ~last.flip, op |-> r.op, fileId |-> r.fileId, fileName |-> r.fileName,
   accessToken |-> r.accessToken, action |-> r.action, remote |-> remote,
   discovery |-> NoDiscovery, template |-> template,
   url |-> IF template.kind = "inherited" THEN NoUrl
           ELSE EditorUrl(IF Truthy(template) THEN BaseUrl(template) ELSE FallbackBase,
                          r.fileId, r.accessToken),
   threw |-> template.kind = "inherited", stale |-> FALSE]

\* fetchDiscovery returned discovery to the call r, after a remote request or
\* without one: fetchDiscovery itself returns it, buildEditorUrl resolves its
\* template, asks for the view action when edit has none, which is another
\* fetchDiscovery at time t over the cache as it is now, and builds its URL.
\* The result is the call as it waits on, and the last return
Returned(r, last, remote, discovery, cache, cacheTime, t) ==
  IF r.op = "fetchDiscovery"
  THEN <<DcCallIdle, [NoReturn EXCEPT !.flip = ~last.flip, !.op = r.op,
                                      !.remote = remote, !.discovery = discovery]>>
  ELSE LET ext == Extension(r.fileName)
           template == getEditorUrl(discovery, ext, IF r.second THEN "view" ELSE r.action)
       IN IF ~Truthy(template) /\ r.action = "edit" /\ ~r.second
          THEN IF CacheValid(cache, cacheTime, t)
               THEN <<DcCallIdle, Finish(r, last, remote, getEditorUrl(cache, ext, "view"))>>
               ELSE <<[r EXCEPT !.pc = "fetch", !.second = TRUE, !.t = t,
                                !.cleared = FALSE], last>>
          ELSE <<DcCallIdle, Finish(r, last, remote, template)>>

\* fetchDiscovery up to its fetch: the cache while it is valid, else a remote
\* request
Called(r, last, cache, cacheTime, t) ==
  IF CacheValid(cache, cacheTime, t)
  THEN Returned(r, last, FALSE, cache, cache, cacheTime, t)
  ELSE <<[r EXCEPT !.pc = "fetch", !.t = t], last>>


\* ------------------------------------------------------------ LDAP search filters
\* the {{username}} placeholder of a filter template, as one item
UsernamePlaceholder == [k |-> "p", c |-> "{{username}}", key |-> "-", over |-> <<>>]

\* String.prototype.replace(/c/g, r) for one character c and a replacement
\* without patterns
RECURSIVE ReplaceChar(_, _, _)
ReplaceChar(s, c, r) ==
  IF s = <<>> THEN s
  ELSE (IF Head(s) = Ch(c) THEN r ELSE <<Head(s)>>) \o ReplaceChar(Tail(s), c, r)

\* escapeLDAPFilter
escapeLDAPFilter(value) ==
  IF value = <<>> THEN <<>>
  ELSE ReplaceChar(ReplaceChar(ReplaceChar(ReplaceChar(value,
         "\\", Str(<<"\\", "5", "c">>)),
         "*", Str(<<"\\", "2", "a">>)),
         "(", Str(<<"\\", "2", "8">>)),
         ")", Str(<<"\\", "2", "9">>))

\* the text a replacement string stands for at one match: $$ is a dollar,
\* $& the match, $` the text before it and $' the text after it (the
\* character ` is written "backtick")
RECURSIVE ExpandReplacement(_, _, _, _)
ExpandReplacement(r, before, matched, after) ==
  IF r = <<>> THEN <<>>
  ELSE IF Len(r) >= 2 /\ r[1] = Ch("$") /\ r[2] \in {Ch("$"), Ch("&"), Ch("backtick"), Ch("'")}
  THEN (IF r[2] = Ch("$") THEN Str(<<"$">>)
        ELSE IF r[2] = Ch("&") THEN matched
        ELSE IF r[2] = Ch("backtick") THEN before
        ELSE after)
       \o ExpandReplacement(SubSeq(r, 3, Len(r)), before, matched, after)
  ELSE <<r[1]>> \o ExpandReplacement(Tail(r), before, matched, after)

\* template.replace(/\{\{username\}\}/g, r)
RECURSIVE ReplaceFrom(_, _, _)
ReplaceFrom(template, i, r) ==
  IF i > Len(template) THEN <<>>
  ELSE (IF template[i] = UsernamePlaceholder
        THEN ExpandReplacement(r, SubSeq(template, 1, i - 1), <<template[i]>>,
                               SubSeq(template, i + 1, Len(template)))
        ELSE <<template[i]>>)
       \o ReplaceFrom(template, i + 1, r)
ReplaceUsername(template, r) == ReplaceFrom(template, 1, r)

Count(s, c) == Cardinality({i \in 1..Len(s) : s[i] = Ch(c)})

\* replace(/\{+/g, '').replace(/\}+/g, ''): of a placeholder its name is left
RECURSIVE RemoveBraces(_)
RemoveBraces(s) ==
  IF s = <<>> THEN s
  ELSE (IF Head(s) \in {Ch("{"), Ch("}")} THEN <<>>
        ELSE IF Head(s) = UsernamePlaceholder
        THEN Str(<<"u", "s", "e", "r", "n", "a", "m", "e">>)
        ELSE <<Head(s)>>) \o RemoveBraces(Tail(s))

\* the loops of _sanitizeFilter
RECURSIVE DropToParen(_)
DropToParen(s) ==
  IF s = <<>> \/ s[Len(s)] = Ch(")") THEN s ELSE DropToParen(SubSeq(s, 1, Len(s) - 1))
RECURSIVE DropExtraCloses(_, _, _)
DropExtraCloses(s, opens, closes) ==
  IF closes > opens /\ s # <<>> /\ s[Len(s)] = Ch(")")
  THEN DropExtraCloses(SubSeq(s, 1, Len(s) - 1), opens, closes - 1)
  ELSE <<s, closes>>
RECURSIVE AddCloses(_, _, _)
AddCloses(s, opens, closes) ==
  IF opens > closes THEN AddCloses(Append(s, Ch(")")), opens, closes + 1) ELSE s

_sanitizeFilter(filter) ==
  IF filter = <<>> THEN filter
  ELSE LET cut == DropToParen(RemoveBraces(Trim(filter)))
           opens == Count(cut, "(")
           dropped == DropExtraCloses(cut, opens, Count(cut, ")"))
       IN AddCloses(dropped[1], opens, dropped[2])

_buildFilter(userSearchFilter, username) ==
  LET filter == _sanitizeFilter(ReplaceUsername(userSearchFilter,
                                                escapeLDAPFilter(username)))
  IN IF ~StartsWith(filter, Str(<<"(">>))
     THEN Str(<<"(">>) \o filter \o Str(<<")">>)
     ELSE filter

\* ------------------------------------------------- the other components, idle
\* the token under test: how it was made (class), the arguments of a minted
\* one, the clock (Date.now(), in minutes) and what verifyAccessToken returned
TkIdle == [phase |-> "idle", clock |-> 0, class |-> "-", token |-> NoToken,
           mintedAt |-> 0, fileId |-> "-", userId |-> "-", permissions |-> "-",
           result |-> NullPayload]

\* AUTH_MODE
Modes == {"local", "ldap", "ltpa", "ldap_ltpa", "hybrid"}

\* login names; an account's email stands and falls with its username
Names == {"alice", "bob", "carol", "dave"}
Passwords == {"pa", "pb", "pl", "", "LDAP_AUTH", "EXTERNAL_AUTH"}

\* users.password_hash: a bcrypt hash of a password, or the placeholder that
\* findOrCreateLDAPUser ('LDAP_AUTH') and findOrCreateLTPAUser
\* ('EXTERNAL_AUTH') store
BcryptHash(password) == [bcrypt |-> TRUE, of |-> password]
Placeholder(text) == [bcrypt |-> FALSE, of |-> text]

\* bcrypt.compare(password, hash)
BcryptCompare(password, hash) == hash.bcrypt /\ hash.of = password

\* a row of users, as far as authentication reads it
NoAccount == [present |-> FALSE, password_hash |-> Placeholder("-"),
              auth_source |-> "-", is_active |-> FALSE]
LocalAccount(password) == [present |-> TRUE, password_hash |-> BcryptHash(password),
                           auth_source |-> "local", is_active |-> TRUE]
ExternalAccount(placeholder, source) ==
  [present |-> TRUE, password_hash |-> Placeholder(placeholder),
   auth_source |-> source, is_active |-> TRUE]
NoAccounts == [n \in Names |-> NoAccount]

\* the directory server: whether it answers, and LDAP_BIND_DN ('' binds
\* anonymously); its entries do not change
NoDirectory == [up |-> TRUE, bindDN |-> ""]
NoEntry == [dn |-> "-", uid |-> "-", password |-> "-"]
DirectoryEntries ==
  << [dn |-> "cn=alice", uid |-> "alice", password |-> "pa"],
     [dn |-> "cn=bob", uid |-> "bob", password |-> "pb"],
     [dn |-> "cn=bob2", uid |-> "bob", password |-> "pa"],
     [dn |-> "cn=dave", uid |-> "dave", password |-> "pa"] >>

\* a login request: its body, the locals of the handler and of
\* ldapService.authenticate (entry, entriesFound), its response; tried records
\* the branches it entered, dirFailed that a directory operation was refused
\* because the server did not answer, dbFailed that a query rejected
LgIdle == [pc |-> "idle", id |-> "-", password |-> "-",
           entry |-> NoEntry, entriesFound |-> 0, ldapUser |-> "-",
           user |-> "-", authSource |-> "local", status |-> 0,
           triedLdap |-> FALSE, triedLocal |-> FALSE,
           dirFailed |-> FALSE, dbFailed |-> FALSE]

\* an LTPA cookie: absent, or a token that validateToken accepts for a
\* username or rejects
NoLtpa == [present |-> FALSE, valid |-> FALSE, username |-> "-"]
LtpaFor(n) == [present |-> TRUE, valid |-> TRUE, username |-> n]
BadLtpa == [present |-> TRUE, valid |-> FALSE, username |-> "-"]

\* an Authorization header: absent, or a JWT that jwt.verify accepts for a
\* user id or rejects
NoJwt == [present |-> FALSE, valid |-> FALSE, userId |-> "-"]
JwtFor(n) == [present |-> TRUE, valid |-> TRUE, userId |-> n]
BadJwt == [present |-> TRUE, valid |-> FALSE, userId |-> "-"]

\* a request in authenticateToken: cookie and header, the locals, and the
\* outcome: next() with req.user and req.authMethod (status 200 here), or a
\* status; asked records that userExistsInLDAP was called, dirFailed that it
\* caught an error, via which credential authenticated the request
MwIdle == [pc |-> "idle", ltpa |-> NoLtpa, jwt |-> NoJwt,
           ltpaUser |-> "-", ldapValid |-> FALSE, asked |-> FALSE,
           dirFailed |-> FALSE, authSource |-> "-",
           user |-> "-", authMethod |-> "-", via |-> "-", status |-> 0]
\* the LTPA service: config.secretKey, config.realm, config.dominoUserFormat,
\* this.keys and the name of its key derivation method, the stored
\* ltpa-config.json, and a token under test with the
\* clock (Date.now(), in hours) and what validateToken returned
LtIdle == [secretKey |-> NoSecret, keys |-> NoKeys, realm |-> Str(<<"R">>),
           format |-> "cn", method |-> "_deriveKeys", configFile |-> NoSecret,
           clock |-> 0, phase |-> "idle", class |-> "-", token |-> NoLtpaToken,
           username |-> <<>>, attributes |-> <<>>, mintedAt |-> 0,
           expireAt |-> NaN, result |-> NoPrincipal]

\* a request to the LTPA routes of /api/admin
AdSlots == {"a1", "a2"}
AdIdle == [pc |-> "idle", op |-> "-", secretKey |-> NoSecret, loaded |-> NoSecret,
           status |-> 0]

\* the discovery service: the clock, discoveryCache and discoveryCacheTime,
\* whether a fetch succeeded since the last clearCache, the calls that wait
\* for Collabora and the last return
DcIdle == [now |-> 0, cache |-> NoDiscovery, cacheTime |-> 0, fetched |-> FALSE,
           calls |-> [s \in DcSlots |-> DcCallIdle], last |-> NoReturn]

\* a user name and the search filter made for it
FlIdle == [phase |-> "idle", userSearchFilter |-> <<>>, username |-> <<>>,
           filter |-> <<>>]

InitMore ==
  /\ lt = LtIdle
  /\ ad = [s \in AdSlots |-> AdIdle]
  /\ dc = DcIdle
  /\ fl = FlIdle

InitOther ==
  /\ tk = TkIdle
  /\ auth_mode = "local"
  /\ accounts = NoAccounts
  /\ dir = NoDirectory
  /\ lg = LgIdle
  /\ mw = MwIdle
  /\ InitMore

\* the WOPI host after construction: two stored files, no lock, no request
InitWopi ==
  /\ now = 0
  /\ files = [f \in FileIds |->
               IF f = "f1" THEN NewFile("u1", <<"r", ".", "o">>, Len(InitBytes), NoFolder)
               ELSE IF f = "f2" THEN NewFile("u2", <<"s", ".", "o">>, Len(InitBytes), NoFolder)
               ELSE BlankFile]
  /\ disk = [f \in FileIds |-> IF f \in {"f1", "f2"} THEN InitBytes ELSE Missing]
  /\ snaps = {}
  /\ file_versions = {}
  /\ file_locks = {}
  /\ storage_used = [u \in Users |-> Len(InitBytes)]
  /\ audit_log = NoAudit
  /\ verBytes = {[file_id |-> f, version |-> 1, bytes |-> InitBytes] : f \in {"f1", "f2"}}
  /\ req = [s \in Slots |-> Idle]
  /\ served = 0

Init == InitWopi /\ InitOther

\* ------------------------------------------------------------ request inputs
\* what a request can present as access_token: nothing, bytes that do not
\* decrypt, a token minted more than 24 h ago, and tokens minted now for the
\* given (file, user, permission) triples
Tokens(triples) ==
  {NoToken, Garbage}
    \cup {generateAccessToken(t[1], t[2], t[3], now - (TokenMaxAge + 1)) :
            t \in {x \in triples : x[3] = "edit"}}
    \cup {generateAccessToken(t[1], t[2], t[3], now) : t \in triples}

\* the lines every route starts with: 401 without a token or with one that
\* does not verify; PutFile also wants permission edit or admin
Arrive(s, op, f, token, needEdit, r0) ==
  /\ ~InFlight(s)
  /\ served < MaxRequests
  /\ served' = served + 1
  /\ LET tokenData == verifyAccessToken(token, now)
         r == [r0 EXCEPT !.op = op, !.fileId = f, !.tok = tokenData]
     IN req' = [req EXCEPT ![s] =
                  IF token = NoToken THEN Respond(r, 401)
                  ELSE IF tokenData = NullPayload THEN Respond(r, 401)
                  ELSE IF needEdit /\ tokenData.permissions \notin {"edit", "admin"}
                       THEN Respond(r, 401)
                  ELSE [r EXCEPT !.pc = "sel_file"]]
  /\ UNCHANGED <<other, now, db>>

\* POST /wopi/files/:fileId with X-WOPI-Override, X-WOPI-Lock
ArrivePost(s, ops, fs, toks, locks) ==
  \E op \in ops, f \in fs, token \in toks, lk \in locks :
    Arrive(s, op, f, token, FALSE, [Idle EXCEPT !.lock = lk])

\* the SELECT of the POST route, then the switch on X-WOPI-Override up to the
\* first await of the handler it calls
PostSelectFile(s) ==
  /\ req[s].pc = "sel_file"
  /\ req[s].op \notin {"CHECK_FILE_INFO", "GET_FILE", "PUT"}
  /\ LET r == req[s]
         rows == FindFile(r.fileId)
     IN req' = [req EXCEPT ![s] =
          IF rows = {} THEN Respond(r, 404)
          ELSE CASE r.op = "LOCK" -> [r EXCEPT !.pc = "lock_sel"]
                 [] r.op = "GET_LOCK" -> [r EXCEPT !.pc = "getlock_sel"]
                 [] r.op = "REFRESH_LOCK" -> [r EXCEPT !.pc = "refresh_sel"]
                 [] r.op = "UNLOCK" -> [r EXCEPT !.pc = "unlock_sel"]
                 [] r.op = "PUT_RELATIVE" -> [r EXCEPT !.pc = "pr_sel_src"]
                 [] r.op = "RENAME_FILE" ->
                      IF r.reqName = <<>> THEN Respond(r, 400)
                      ELSE [r EXCEPT !.pc = "rename_upd"]
                 [] r.op = "DELETE" -> [r EXCEPT !.pc = "delete_upd"]
                 [] OTHER -> Respond(r, 400)]
  /\ UNCHANGED <<other, now, db, served>>

\* handleLock, taking every live lock for one that blocks nothing
LockSelectBlind(r) == [r EXCEPT !.pc = "lock_ins"]

\* handleLock up to its second await: the SELECT and the branch on its result
LockSelect(r) ==
  LET rows == LiveLocks(r.fileId)
  IN IF rows # {}
     THEN LET existingLock == CHOOSE l \in rows : TRUE
          IN IF existingLock.lock_id = r.lock
             THEN [r EXCEPT !.pc = "lock_upd"]
             ELSE RespondLock(r, 409, existingLock.lock_id)
     ELSE [r EXCEPT !.pc = "lock_ins"]

HandleLockSelect(s) ==
  /\ req[s].pc = "lock_sel"
  /\ req' = [req EXCEPT ![s] = LockSelect(req[s])]
  /\ UNCHANGED <<other, now, db, served>>

\* handleLock, "Refresh existing lock"
HandleLockRefresh(s) ==
  /\ req[s].pc = "lock_upd"
  /\ file_locks' = ExtendLock(file_locks, req[s].fileId, now)
  /\ req' = [req EXCEPT ![s] = RespondLock(req[s], 200, req[s].lock)]
  /\ UNCHANGED <<other, served, now, files, disk, snaps, file_versions, storage_used, audit_log, verBytes>>

\* handleLock, "Create new lock"; lock_id is NOT NULL, so a request without
\* X-WOPI-Lock makes the INSERT throw and the route answers 500
HandleLockInsert(s) ==
  /\ req[s].pc = "lock_ins"
  /\ IF req[s].lock = Undefined
     THEN /\ req' = [req EXCEPT ![s] = Respond(req[s], 500)]
          /\ UNCHANGED file_locks
     ELSE /\ file_locks' = UpsertLock(file_locks, req[s].fileId, req[s].lock,
                                      req[s].tok.userId, now)
          /\ req' = [req EXCEPT ![s] = RespondLock(req[s], 200, req[s].lock)]
  /\ UNCHANGED <<other, served, now, files, disk, snaps, file_versions, storage_used, audit_log, verBytes>>

\* handleGetLock
HandleGetLock(s) ==
  /\ req[s].pc = "getlock_sel"
  /\ LET rows == LiveLocks(req[s].fileId)
     IN req' = [req EXCEPT ![s] =
          IF rows # {} THEN RespondLock(req[s], 200, (CHOOSE l \in rows : TRUE).lock_id)
          ELSE RespondLock(req[s], 200, "")]
  /\ UNCHANGED <<other, now, db, served>>

\* handleRefreshLock up to its second await
HandleRefreshSelect(s) ==
  /\ req[s].pc = "refresh_sel"
  /\ LET r == req[s]
         rows == LiveLocks(r.fileId)
     IN req' = [req EXCEPT ![s] =
          IF rows = {} THEN RespondLock(r, 409, "")
          ELSE LET existingLock == CHOOSE l \in rows : TRUE
               IN IF existingLock.lock_id # r.lock
                  THEN RespondLock(r, 409, existingLock.lock_id)
                  ELSE [r EXCEPT !.pc = "refresh_upd"]]
  /\ UNCHANGED <<other, now, db, served>>

\* handleRefreshLock, the UPDATE and the response
HandleRefreshUpdate(s) ==
  /\ req[s].pc = "refresh_upd"
  /\ file_locks' = ExtendLock(file_locks, req[s].fileId, now)
  /\ req' = [req EXCEPT ![s] = RespondLock(req[s], 200, req[s].lock)]
  /\ UNCHANGED <<other, served, now, files, disk, snaps, file_versions, storage_used, audit_log, verBytes>>

\* handleUnlock up to its second await; its SELECT has no expires_at filter
HandleUnlockSelect(s) ==
  /\ req[s].pc = "unlock_sel"
  /\ LET r == req[s]
         rows == AnyLocks(r.fileId)
     IN req' = [req EXCEPT ![s] =
          IF rows = {} THEN RespondLock(r, 200, "")
          ELSE LET existingLock == CHOOSE l \in rows : TRUE
               IN IF existingLock.lock_id # r.lock
                  THEN RespondLock(r, 409, existingLock.lock_id)
                  ELSE [r EXCEPT !.pc = "unlock_del"]]
  /\ UNCHANGED <<other, now, db, served>>

\* handleUnlock, the DELETE and the response
HandleUnlockDelete(s) ==
  /\ req[s].pc = "unlock_del"
  /\ file_locks' = DeleteLock(file_locks, req[s].fileId)
  /\ req' = [req EXCEPT ![s] = RespondLock(req[s], 200, "")]
  /\ UNCHANGED <<other, served, now, files, disk, snaps, file_versions, storage_used, audit_log, verBytes>>

\* an awaited query or file operation rejects: the route's catch answers 500
Fail(s) ==
  /\ InFlight(s)
  /\ req' = [req EXCEPT ![s] = Respond(req[s], 500)]
  /\ UNCHANGED <<other, now, db, served>>

\* NOW() and Date.now() move on
Tick ==
  /\ now + TickStep <= MaxTime
  /\ now' = now + TickStep
  /\ UNCHANGED <<other, db, req, served>>

LockStep(s) ==
  \/ HandleLockSelect(s)
  \/ HandleLockRefresh(s)
  \/ HandleLockInsert(s)
  \/ HandleGetLock(s)
  \/ HandleRefreshSelect(s)
  \/ HandleRefreshUpdate(s)
  \/ HandleUnlockSelect(s)
  \/ HandleUnlockDelete(s)

LockOps == {"LOCK", "GET_LOCK", "REFRESH_LOCK", "UNLOCK"}

\* ------------------------------------------------------------------ PutFile
\* POST /wopi/files/:fileId/contents with X-WOPI-Lock and the new bytes
ArrivePutFile(s, fs, toks, locks, bodies) ==
  \E f \in fs, token \in toks, lk \in locks, b \in bodies :
    Arrive(s, "PUT", f, token, TRUE, [Idle EXCEPT !.lock = lk, !.body = b])

\* "Get file info"; a file already at MaxVersion is not saved again
PutSelectFile(s) ==
  /\ req[s].pc = "sel_file"
  /\ req[s].op = "PUT"
  /\ files[req[s].fileId].version < MaxVersion
  /\ LET r == req[s]
         rows == FindFile(r.fileId)
     IN req' = [req EXCEPT ![s] =
          IF rows = {} THEN Respond(r, 404)
          ELSE [r EXCEPT !.pc = "put_sel_lock", !.file = CHOOSE row \in rows : TRUE]]
  /\ UNCHANGED <<other, now, db, served>>

\* "Check lock", without the comparison with X-WOPI-Lock
PutLockCheckBlind(r) == [r EXCEPT !.pc = "put_copy"]

\* "Check lock"
PutLockCheck(r) ==
  LET rows == LiveLocks(r.fileId)
  IN IF rows # {} /\ (CHOOSE l \in rows : TRUE).lock_id # r.lock
     THEN RespondLock(r, 409, (CHOOSE l \in rows : TRUE).lock_id)
     ELSE [r EXCEPT !.pc = "put_copy"]

PutSelectLock(s) ==
  /\ req[s].pc = "put_sel_lock"
  /\ req' = [req EXCEPT ![s] = PutLockCheck(req[s])]
  /\ UNCHANGED <<other, now, db, served>>

\* fs.copyFile(filePath, `${storage_path}.v${file.version}`): the snapshot file
\* is created or overwritten
PutCopy(s) ==
  /\ req[s].pc = "put_copy"
  /\ LET r == req[s]
     IN IF disk[r.fileId] = Missing
        THEN /\ req' = [req EXCEPT ![s] = Respond(r, 500)]
             /\ UNCHANGED snaps
        ELSE /\ snaps' = {x \in snaps : ~(x.file_id = r.fileId /\ x.version = r.file.version)}
                           \cup {[file_id |-> r.fileId, version |-> r.file.version,
                                  bytes |-> disk[r.fileId]]}
             /\ req' = [req EXCEPT ![s] = [r EXCEPT !.pc = "put_ins_ver"]]
  /\ UNCHANGED <<other, served, now, files, disk, file_versions, file_locks, storage_used, audit_log, verBytes>>

\* the INSERT on a table without UNIQUE(file_id, version)
VersionTakenNever(rows, f, v) == FALSE

\* UNIQUE(file_id, version) of file_versions
VersionTaken(rows, f, v) == \E x \in rows : x.file_id = f /\ x.version = v

\* INSERT INTO file_versions ...: throws on a taken (file_id, version)
PutInsertVersion(s) ==
  /\ req[s].pc = "put_ins_ver"
  /\ LET r == req[s]
     IN IF VersionTaken(file_versions, r.fileId, r.file.version)
        THEN /\ req' = [req EXCEPT ![s] = Respond(r, 500)]
             /\ UNCHANGED file_versions
        ELSE /\ file_versions' = file_versions \cup
                  {[file_id |-> r.fileId, version |-> r.file.version,
                    size |-> r.file.size, created_by |-> r.tok.userId]}
             /\ req' = [req EXCEPT ![s] = [r EXCEPT !.pc = "put_write", !.dirty = TRUE]]
  /\ UNCHANGED <<other, served, now, files, disk, snaps, file_locks, storage_used, audit_log, verBytes>>

\* fs.writeFile(filePath, req.body)
PutWrite(s) ==
  /\ req[s].pc = "put_write"
  /\ disk' = [disk EXCEPT ![req[s].fileId] = req[s].body]
  /\ req' = [req EXCEPT ![s] = [@ EXCEPT !.pc = "put_stat",
                                         !.dirty = @ \/ disk[req[s].fileId] # req[s].body]]
  /\ UNCHANGED <<other, served, now, files, snaps, file_versions, file_locks, storage_used, audit_log, verBytes>>

\* fs.writeFile rejects after it opened the file for writing: the file is
\* left truncated
PutWriteFail(s) ==
  /\ req[s].pc = "put_write"
  /\ disk' = [disk EXCEPT ![req[s].fileId] = <<>>]
  /\ req' = [req EXCEPT ![s] =
       Respond([req[s] EXCEPT !.dirty = @ \/ disk[req[s].fileId] # <<>>], 500)]
  /\ UNCHANGED <<other, served, now, files, snaps, file_versions, file_locks, storage_used, audit_log, verBytes>>

\* fs.stat(filePath)
PutStat(s) ==
  /\ req[s].pc = "put_stat"
  /\ req' = [req EXCEPT ![s] = [@ EXCEPT !.pc = "put_upd_file",
                                         !.size = Len(disk[req[s].fileId])]]
  /\ UNCHANGED <<other, now, db, served>>

\* "Update file record": version = file.version + 1 from the row read at the start
PutUpdateFile(s) ==
  /\ req[s].pc = "put_upd_file"
  /\ LET r == req[s]
         newVersion == r.file.version + 1
     IN /\ files' = [files EXCEPT ![r.fileId].size = r.size, ![r.fileId].version = newVersion]
        /\ verBytes' = {x \in verBytes : ~(x.file_id = r.fileId /\ x.version = newVersion)}
                         \cup {[file_id |-> r.fileId, version |-> newVersion,
                                bytes |-> disk[r.fileId]]}
        /\ req' = [req EXCEPT ![s] = [r EXCEPT !.pc = "put_upd_user", !.dirty = TRUE]]
  /\ UNCHANGED <<other, served, now, disk, snaps, file_versions, file_locks, storage_used, audit_log>>

\* "Update user storage"
PutUpdateUser(s) ==
  /\ req[s].pc = "put_upd_user"
  /\ LET r == req[s]
         sizeDiff == r.size - r.file.size
     IN /\ storage_used' = [storage_used EXCEPT ![r.file.owner_id] = @ + sizeDiff]
        /\ req' = [req EXCEPT ![s] = [r EXCEPT !.pc = "put_audit",
                                               !.dirty = @ \/ sizeDiff # 0]]
  /\ UNCHANGED <<other, served, now, files, disk, snaps, file_versions, file_locks, audit_log, verBytes>>

\* "Log audit" and the 200 response with X-WOPI-ItemVersion
PutAudit(s) ==
  /\ req[s].pc = "put_audit"
  /\ LET r == req[s]
     IN /\ audit_log' = AuditRow(r.tok.userId, "FILE_UPDATE", r.fileId)
        /\ req' = [req EXCEPT ![s] =
             [Respond(r, 200) EXCEPT !.itemVersion = r.file.version + 1]]
  /\ UNCHANGED <<other, served, now, files, disk, snaps, file_versions, file_locks, storage_used, verBytes>>

PutOkStep(s) ==
  \/ PutSelectFile(s)
  \/ PutSelectLock(s)
  \/ PutCopy(s)
  \/ PutInsertVersion(s)
  \/ PutWrite(s)
  \/ PutStat(s)
  \/ PutUpdateFile(s)
  \/ PutUpdateUser(s)
  \/ PutAudit(s)

PutStep(s) ==
  \/ PutOkStep(s)
  \/ PutWriteFail(s)

\* ------------------------------------------------- CheckFileInfo and GetFile
\* GET /wopi/files/:fileId
ArriveCheckFileInfo(s, fs, toks) ==
  \E f \in fs, token \in toks : Arrive(s, "CHECK_FILE_INFO", f, token, FALSE, Idle)

\* GET /wopi/files/:fileId/contents
ArriveGetFile(s, fs, toks) ==
  \E f \in fs, token \in toks : Arrive(s, "GET_FILE", f, token, FALSE, Idle)

\* the SELECT of both GET routes
GetSelectFile(s) ==
  /\ req[s].pc = "sel_file"
  /\ req[s].op \in {"CHECK_FILE_INFO", "GET_FILE"}
  /\ LET r == req[s]
         rows == FindFile(r.fileId)
     IN req' = [req EXCEPT ![s] =
          IF rows = {} THEN Respond(r, 404)
          ELSE [r EXCEPT !.pc = IF r.op = "GET_FILE" THEN "get_read" ELSE "cfi_stat",
                         !.file = CHOOSE row \in rows : TRUE]]
  /\ UNCHANGED <<other, now, db, served>>

\* CheckFileInfo, fs.stat(filePath)
CfiStat(s) ==
  /\ req[s].pc = "cfi_stat"
  /\ req' = [req EXCEPT ![s] =
       IF disk[req[s].fileId] = Missing THEN Respond(req[s], 404)
       ELSE [req[s] EXCEPT !.pc = "cfi_lock"]]
  /\ UNCHANGED <<other, now, db, served>>

\* CheckFileInfo, "Check for locks" and the response
CfiLock(s) ==
  /\ req[s].pc = "cfi_lock"
  /\ LET r == req[s]
         rows == LiveLocks(r.fileId)
         canEdit == r.tok.permissions \in {"edit", "admin"}
         isOwner == r.tok.userId = r.file.owner_id
     IN req' = [req EXCEPT ![s] =
          [Respond(r, 200) EXCEPT
             !.name = r.file.original_filename,
             !.info = [Size |-> r.file.size, Version |-> r.file.version,
                       UserCanWrite |-> canEdit, UserCanRename |-> isOwner,
                       LockValue |-> IF rows # {} THEN (CHOOSE l \in rows : TRUE).lock_id
                                     ELSE "null"]]]
  /\ UNCHANGED <<other, now, db, served>>

\* GetFile, fs.readFile(filePath) and the response
GetRead(s) ==
  /\ req[s].pc = "get_read"
  /\ LET r == req[s]
     IN req' = [req EXCEPT ![s] =
          IF disk[r.fileId] = Missing THEN Respond(r, 500)
          ELSE [Respond(r, 200) EXCEPT !.sent = disk[r.fileId],
                                       !.itemVersion = r.file.version]]
  /\ UNCHANGED <<other, now, db, served>>

\* ------------------------------------------------------- rename and delete
\* POST with X-WOPI-Override RENAME_FILE and X-WOPI-RequestedName
ArriveRename(s, fs, toks, names) ==
  \E f \in fs, token \in toks, n \in names :
    Arrive(s, "RENAME_FILE", f, token, FALSE, [Idle EXCEPT !.reqName = n])

\* handleRename, the UPDATE
HandleRenameUpdate(s) ==
  /\ req[s].pc = "rename_upd"
  /\ files' = [files EXCEPT ![req[s].fileId].original_filename = req[s].reqName]
  /\ req' = [req EXCEPT ![s] = [@ EXCEPT !.pc = "rename_audit", !.dirty = TRUE]]
  /\ UNCHANGED <<other, served, now, disk, snaps, file_versions, file_locks, storage_used, audit_log, verBytes>>

\* handleRename, the audit row and the response
HandleRenameAudit(s) ==
  /\ req[s].pc = "rename_audit"
  /\ audit_log' = AuditRow(req[s].tok.userId, "FILE_RENAME", req[s].fileId)
  /\ req' = [req EXCEPT ![s] = [Respond(req[s], 200) EXCEPT !.name = req[s].reqName]]
  /\ UNCHANGED <<other, served, now, files, disk, snaps, file_versions, file_locks, storage_used, verBytes>>

\* handleDelete, the UPDATE
HandleDeleteUpdate(s) ==
  /\ req[s].pc = "delete_upd"
  /\ files' = [files EXCEPT ![req[s].fileId].is_deleted = TRUE]
  /\ req' = [req EXCEPT ![s] = [@ EXCEPT !.pc = "delete_audit", !.dirty = TRUE]]
  /\ UNCHANGED <<other, served, now, disk, snaps, file_versions, file_locks, storage_used, audit_log, verBytes>>

\* handleDelete, the audit row and the response
HandleDeleteAudit(s) ==
  /\ req[s].pc = "delete_audit"
  /\ audit_log' = AuditRow(req[s].tok.userId, "FILE_DELETE", req[s].fileId)
  /\ req' = [req EXCEPT ![s] = Respond(req[s], 200)]
  /\ UNCHANGED <<other, served, now, files, disk, snaps, file_versions, file_locks, storage_used, verBytes>>

\* -------------------------------------------------------------- PutRelative
\* POST with X-WOPI-Override PUT_RELATIVE; uuidv4() needs an id not yet used
ArrivePutRelative(s, fs, toks, rels, sugs, bodies) ==
  /\ \E id \in FileIds : ~files[id].present
  /\ \E f \in fs, token \in toks, rel \in rels, sug \in sugs, ow \in BOOLEAN, b \in bodies :
       Arrive(s, "PUT_RELATIVE", f, token, FALSE,
              [Idle EXCEPT !.relTarget = rel, !.sugTarget = sug, !.overwrite = ow, !.body = b])

\* "Determine target filename"; <<>> when neither header is given
TargetName(relativeTarget, suggestedTarget, sourceName) ==
  IF relativeTarget # <<>> THEN relativeTarget
  ELSE IF suggestedTarget # <<>>
       THEN IF suggestedTarget[1] = "."
            THEN StripExt(sourceName) \o suggestedTarget
            ELSE suggestedTarget
       ELSE <<>>

\* handlePutRelative, "Get source file info" up to the query for an existing file
PrSelectSource(s) ==
  /\ req[s].pc = "pr_sel_src"
  /\ LET r == req[s]
         rows == FindFile(r.fileId)
     IN req' = [req EXCEPT ![s] =
          IF rows = {} THEN Respond(r, 404)
          ELSE LET sourceFile == CHOOSE row \in rows : TRUE
                   targetName == TargetName(r.relTarget, r.sugTarget,
                                            sourceFile.original_filename)
               IN IF targetName = <<>> THEN Respond(r, 400)
                  ELSE [r EXCEPT !.pc = "pr_sel_exist", !.file = sourceFile,
                                 !.target = CleanName(targetName)]]
  /\ UNCHANGED <<other, now, db, served>>

\* "Check if file with same name exists in same folder"
ExistingFilesOfAnyOwner(owner, name, folder) ==
  {id \in FileIds : /\ files[id].present
                    /\ files[id].original_filename = name
                    /\ files[id].parent_folder_id = folder
                    /\ ~files[id].is_deleted}
ExistingFiles(owner, name, folder) ==
  {id \in FileIds : /\ files[id].present
                    /\ files[id].owner_id = owner
                    /\ files[id].original_filename = name
                    /\ files[id].parent_folder_id = folder
                    /\ ~files[id].is_deleted}

\* the existence check, the 409, and the new file's id
PrSelectExisting(s) ==
  /\ req[s].pc = "pr_sel_exist"
  /\ LET r == req[s]
         existing == ExistingFiles(r.file.owner_id, r.target, r.file.parent_folder_id)
     IN req' = [req EXCEPT ![s] =
          IF existing # {} /\ ~r.overwrite
          THEN [Respond(r, 409) EXCEPT !.name = r.target]
          ELSE [r EXCEPT !.pc = "pr_mkdir",
                         !.existing = IF existing # {} THEN CHOOSE id \in existing : TRUE
                                      ELSE "-",
                         !.newId = CHOOSE id \in FileIds : ~files[id].present]]
  /\ UNCHANGED <<other, now, db, served>>

\* fs.mkdir(userDir, { recursive: true })
PrMkdir(s) ==
  /\ req[s].pc = "pr_mkdir"
  /\ req' = [req EXCEPT ![s] = [@ EXCEPT !.pc = "pr_write"]]
  /\ UNCHANGED <<other, now, db, served>>

\* fs.writeFile(newFilePath, fileContent)
PrWrite(s) ==
  /\ req[s].pc = "pr_write"
  /\ disk' = [disk EXCEPT ![req[s].newId] = req[s].body]
  /\ req' = [req EXCEPT ![s] = [@ EXCEPT !.pc = "pr_stat", !.dirty = TRUE]]
  /\ UNCHANGED <<other, served, now, files, snaps, file_versions, file_locks, storage_used, audit_log, verBytes>>

\* fs.stat(newFilePath), then "If overwriting, delete old file first"
PrStat(s) ==
  /\ req[s].pc = "pr_stat"
  /\ req' = [req EXCEPT ![s] =
       [@ EXCEPT !.size = Len(disk[req[s].newId]),
                 !.pc = IF req[s].existing # "-" /\ req[s].overwrite
                        THEN "pr_del_old" ELSE "pr_ins_file"]]
  /\ UNCHANGED <<other, now, db, served>>

\* UPDATE files SET is_deleted = true WHERE id = existing id
PrDeleteOld(s) ==
  /\ req[s].pc = "pr_del_old"
  /\ files' = [files EXCEPT ![req[s].existing].is_deleted = TRUE]
  /\ req' = [req EXCEPT ![s] = [@ EXCEPT !.pc = "pr_ins_file"]]
  /\ UNCHANGED <<other, served, now, disk, snaps, file_versions, file_locks, storage_used, audit_log, verBytes>>

\* "Create file record"; the primary key rejects an id already present
PrInsertFile(s) ==
  /\ req[s].pc = "pr_ins_file"
  /\ LET r == req[s]
     IN IF files[r.newId].present
        THEN /\ req' = [req EXCEPT ![s] = Respond(r, 500)]
             /\ UNCHANGED <<files, verBytes>>
        ELSE /\ files' = [files EXCEPT ![r.newId] =
                            NewFile(r.file.owner_id, r.target, r.size, r.file.parent_folder_id)]
             /\ verBytes' = verBytes \cup
                  {[file_id |-> r.newId, version |-> 1, bytes |-> disk[r.newId]]}
             /\ req' = [req EXCEPT ![s] = [r EXCEPT !.pc = "pr_upd_user"]]
  /\ UNCHANGED <<other, served, now, disk, snaps, file_versions, file_locks, storage_used, audit_log>>

\* "Update user storage"
PrUpdateUser(s) ==
  /\ req[s].pc = "pr_upd_user"
  /\ storage_used' = [storage_used EXCEPT ![req[s].file.owner_id] = @ + req[s].size]
  /\ req' = [req EXCEPT ![s] = [@ EXCEPT !.pc = "pr_audit"]]
  /\ UNCHANGED <<other, served, now, files, disk, snaps, file_versions, file_locks, audit_log, verBytes>>

\* "Log audit" and the response naming the new file
PrAudit(s) ==
  /\ req[s].pc = "pr_audit"
  /\ LET r == req[s]
     IN /\ audit_log' = AuditRow(r.tok.userId, "FILE_SAVE_AS", r.newId)
        /\ req' = [req EXCEPT ![s] = [Respond(r, 200) EXCEPT !.name = r.target]]
  /\ UNCHANGED <<other, served, now, files, disk, snaps, file_versions, file_locks, storage_used, verBytes>>

FileStep(s) ==
  \/ GetSelectFile(s)
  \/ CfiStat(s)
  \/ CfiLock(s)
  \/ GetRead(s)
  \/ HandleRenameUpdate(s)
  \/ HandleRenameAudit(s)
  \/ HandleDeleteUpdate(s)
  \/ HandleDeleteAudit(s)
  \/ PrSelectSource(s)
  \/ PrSelectExisting(s)
  \/ PrMkdir(s)
  \/ PrWrite(s)
  \/ PrStat(s)
  \/ PrDeleteOld(s)
  \/ PrInsertFile(s)
  \/ PrUpdateUser(s)
  \/ PrAudit(s)

\* ----------------------------------------------------------- specifications
\* Spec: every WOPI operation, requests served one after the other
AllTokens == Tokens({<<"f1", "u1", "edit">>, <<"f1", "u2", "view">>,
                     <<"f1", "u2", "admin">>, <<"f2", "u2", "edit">>})
Paths == {"f1"}
LockHeaders == LockIds \cup {Undefined}
NewNames == {<<>>, <<"t", ".", "o">>}
RelTargets == {<<>>, <<"r", ".", "o">>}
SugTargets == {<<>>, <<".", "p">>, <<"q", "?">>}

ArriveAny(s) ==
  \/ ArriveCheckFileInfo(s, Paths, AllTokens)
  \/ ArriveGetFile(s, Paths, AllTokens)
  \/ ArrivePutFile(s, Paths, AllTokens, LockHeaders, Bodies)
  \/ ArrivePost(s, {"LOCK", "REFRESH_LOCK", "UNLOCK"}, Paths, AllTokens, LockHeaders)
  \/ ArrivePost(s, {"GET_LOCK", "DELETE", "BOGUS"}, Paths, AllTokens, {Undefined})
  \/ ArriveRename(s, Paths, AllTokens, NewNames)
  \/ ArrivePutRelative(s, Paths, AllTokens, RelTargets, SugTargets, {<<"x">>})

Next ==
  \/ \E s \in {"r1"} :
       \/ ArriveAny(s)
       \/ PostSelectFile(s)
       \/ LockStep(s)
       \/ PutStep(s)
       \/ FileStep(s)
       \/ Fail(s)

Spec == Init /\ [][Next]_vars

\* SpecLock: Lock, GetLock, RefreshLock and Unlock requests of two users and
\* PutFile requests of the owner on one file, two at a time, while time passes
LockTokens == {generateAccessToken("f1", u, "edit", 0) : u \in Users}
OwnerToken == {generateAccessToken("f1", "u1", "edit", 0)}

ArriveLockOp(s) == ArrivePost(s, LockOps, {"f1"}, LockTokens, LockIds)

ArriveLockedPut(s) == ArrivePutFile(s, {"f1"}, OwnerToken, LockIds, {<<"x">>})

NextLock ==
  \/ \E s \in Slots :
       \/ ArriveLockOp(s)
       \/ ArriveLockedPut(s)
       \/ PostSelectFile(s)
       \/ LockStep(s)
       \/ PutStep(s)
  \/ Tick

SpecLock == Init /\ [][NextLock]_vars

\* SpecAbandon: Lock and RefreshLock requests of two users on one file, two
\* at a time, while time passes and nobody unlocks
ArriveLockOrRefresh(s) ==
  ArrivePost(s, {"LOCK", "REFRESH_LOCK"}, {"f1"}, LockTokens, LockIds)

NextAbandon ==
  \/ \E s \in Slots :
       \/ ArriveLockOrRefresh(s)
       \/ PostSelectFile(s)
       \/ HandleLockSelect(s)
       \/ HandleLockRefresh(s)
       \/ HandleLockInsert(s)
       \/ HandleRefreshSelect(s)
       \/ HandleRefreshUpdate(s)
  \/ Tick

SpecAbandon == Init /\ [][NextAbandon]_vars

\* SpecPut: PutFile requests on one file, two at a time, where any step can
\* fail; the file starts unlocked, or with a lock row that is expired or live
InitPut ==
  /\ now = LockTTL
  /\ files = [f \in FileIds |->
               IF f = "f1" THEN NewFile("u1", <<"r", ".", "o">>, Len(InitBytes), NoFolder)
               ELSE BlankFile]
  /\ disk = [f \in FileIds |-> IF f = "f1" THEN InitBytes ELSE Missing]
  /\ snaps = {}
  /\ file_versions = {}
  /\ \E e \in {0, LockTTL, LockTTL + TickStep} :
       file_locks = IF e = 0 THEN {}
                    ELSE {[file_id |-> "f1", lock_id |-> "a", locked_by |-> "u1",
                           expires_at |-> e]}
  /\ storage_used = [u \in Users |-> IF u = "u1" THEN Len(InitBytes) ELSE 0]
  /\ audit_log = NoAudit
  /\ verBytes = {[file_id |-> "f1", version |-> 1, bytes |-> InitBytes]}
  /\ req = [s \in Slots |-> Idle]
  /\ served = 0
  /\ InitOther

ArrivePut(s) == ArrivePutFile(s, {"f1"}, OwnerToken, LockHeaders, Bodies)

NextPut ==
  \E s \in Slots :
    \/ ArrivePut(s)
    \/ PutStep(s)
    \/ Fail(s)

SpecPut == InitPut /\ [][NextPut]_vars

\* SpecPutOk: the PutFile requests of SpecPut when storage and database never
\* fail
NextPutOk ==
  \E s \in Slots :
    \/ ArrivePut(s)
    \/ PutOkStep(s)

SpecPutOk == InitPut /\ [][NextPutOk]_vars

\* SpecRetry: PutFile requests on one file, one after the other; the requests
\* of r1 meet storage and database failures, a request of r2 comes after r1
\* was answered 500 and meets none
ArriveFirst ==
  /\ ~InFlight("r2")
  /\ ArrivePut("r1")

ArriveRetry ==
  /\ req["r1"].pc = "done"
  /\ req["r1"].status = 500
  /\ ArrivePut("r2")

NextRetry ==
  \/ ArriveFirst
  \/ PutStep("r1")
  \/ Fail("r1")
  \/ ArriveRetry
  \/ PutOkStep("r2")

SpecRetry == InitPut /\ [][NextRetry]_vars

\* SpecDeleted: every WOPI operation on one file, two requests at a time, by
\* its owner with edit permission, where any step can fail; PutRelative is
\* asked for while an id is free for the file it creates
ArriveOnFile(s) ==
  \/ ArriveCheckFileInfo(s, {"f1"}, OwnerToken)
  \/ ArriveGetFile(s, {"f1"}, OwnerToken)
  \/ ArrivePutFile(s, {"f1"}, OwnerToken, {"a"}, {<<"x">>})
  \/ ArrivePost(s, {"LOCK", "REFRESH_LOCK", "UNLOCK"}, {"f1"}, OwnerToken, {"a"})
  \/ ArrivePost(s, {"GET_LOCK", "DELETE"}, {"f1"}, OwnerToken, {Undefined})
  \/ ArriveRename(s, {"f1"}, OwnerToken, {<<"t", ".", "o">>})
  \/ /\ \A id \in FileIds \ {"f1", "f2"} : ~files[id].present
     /\ \A o \in Slots : req[o].op = "PUT_RELATIVE" => ~InFlight(o)
     /\ ArrivePutRelative(s, {"f1"}, OwnerToken, {<<>>}, {<<".", "p">>}, {<<"x">>})

\* the steps of PutRelative when it creates a file under a new name
CreateStep(s) ==
  \/ PrSelectSource(s)
  \/ PrSelectExisting(s)
  \/ PrMkdir(s)
  \/ PrWrite(s)
  \/ PrStat(s)
  \/ PrInsertFile(s)
  \/ PrUpdateUser(s)
  \/ PrAudit(s)

NextDeleted ==
  \E s \in Slots :
    \/ ArriveOnFile(s)
    \/ PostSelectFile(s)
    \/ LockStep(s)
    \/ PutStep(s)
    \/ GetSelectFile(s)
    \/ CfiStat(s)
    \/ CfiLock(s)
    \/ GetRead(s)
    \/ HandleRenameUpdate(s)
    \/ HandleRenameAudit(s)
    \/ HandleDeleteUpdate(s)
    \/ HandleDeleteAudit(s)
    \/ CreateStep(s)
    \/ Fail(s)

SpecDeleted == Init /\ [][NextDeleted]_vars

\* SpecRelative: PutRelative requests on the two stored files, one after the
\* other, with failures
RelativeTokens == Tokens({<<"f1", "u1", "edit">>, <<"f1", "u2", "view">>})
RelativeTargets == {<<>>, <<"r", ".", "o">>, <<"s", ".", "o">>}

ArriveRelative(s) ==
  ArrivePutRelative(s, {"f1", "f2"}, RelativeTokens, RelativeTargets, SugTargets, {<<"x">>})

RelativeStep(s) ==
  \/ PostSelectFile(s)
  \/ PrSelectSource(s)
  \/ PrSelectExisting(s)
  \/ PrMkdir(s)
  \/ PrWrite(s)
  \/ PrStat(s)
  \/ PrDeleteOld(s)
  \/ PrInsertFile(s)
  \/ PrUpdateUser(s)
  \/ PrAudit(s)

NextRelative ==
  \E s \in {"r1"} :
    \/ ArriveRelative(s)
    \/ RelativeStep(s)
    \/ Fail(s)

SpecRelative == Init /\ [][NextRelative]_vars

\* SpecToken: tokens are minted or forged, the clock moves, and
\* verifyAccessToken is applied
wopi == <<now, db, req, served>>

\* the payload of a token without timestamp
UntimedPayload == [k \in {"fileId", "userId", "permissions"} |->
                     IF k = "fileId" THEN "f1" ELSE IF k = "userId" THEN "u1" ELSE "edit"]

\* what a caller can present that generateAccessToken did not make: nothing, a
\* string that is no ciphertext, a token made under another secret, and, under
\* our secret, bytes that are no JSON, JSON null, and an object without timestamp
ForgedTokens ==
  {[class |-> "absent", token |-> NoToken],
   [class |-> "garbage", token |-> Garbage],
   [class |-> "wrongkey", token |->
      AesEncrypt(JsonStringify([fileId |-> "f1", userId |-> "u1", permissions |-> "edit",
                                timestamp |-> 0]), OtherSecret)],
   [class |-> "notjson", token |-> AesEncrypt(JunkText, WopiSecret)],
   [class |-> "jsonnull", token |-> AesEncrypt(JsonNull, WopiSecret)],
   [class |-> "untimed", token |->
      AesEncrypt([fmt |-> "json", val |-> [kind |-> "object", obj |-> UntimedPayload]],
                 WopiSecret)]}

\* generateAccessToken(fileId, userId, permissions) at the current clock;
\* permissions may be left out
MintToken ==
  /\ tk.phase = "idle"
  /\ \E f \in {"f1", "f2"}, u \in Users, p \in Permissions \cup {Undefined} :
       tk' = [tk EXCEPT !.phase = "held", !.class = "minted",
                        !.token = generateAccessToken(f, u, p, tk.clock),
                        !.mintedAt = tk.clock,
                        !.fileId = f, !.userId = u, !.permissions = p]
  /\ UNCHANGED <<more, wopi, auth_mode, accounts, dir, lg, mw>>

ForgeToken ==
  /\ tk.phase = "idle"
  /\ \E x \in ForgedTokens :
       tk' = [tk EXCEPT !.phase = "held", !.class = x.class, !.token = x.token]
  /\ UNCHANGED <<more, wopi, auth_mode, accounts, dir, lg, mw>>

\* Date.now() moves on
TokenTick ==
  /\ tk.phase \in {"idle", "held"}
  /\ tk.clock + TokenStep <= MaxClock
  /\ tk' = [tk EXCEPT !.clock = @ + TokenStep]
  /\ UNCHANGED <<more, wopi, auth_mode, accounts, dir, lg, mw>>

VerifyToken ==
  /\ tk.phase = "held"
  /\ tk' = [tk EXCEPT !.phase = "verified",
                      !.result = verifyAccessToken(tk.token, tk.clock)]
  /\ UNCHANGED <<more, wopi, auth_mode, accounts, dir, lg, mw>>

NextToken == MintToken \/ ForgeToken \/ TokenTick \/ VerifyToken

SpecToken == Init /\ [][NextToken]_vars

\* ------------------------------------------------------ the directory service
\* the directory server stops or starts answering
DirFlip ==
  /\ dir' = [dir EXCEPT !.up = ~dir.up]
  /\ UNCHANGED <<more, wopi, tk, auth_mode, accounts, lg, mw>>

\* searchUser: the entries the filter for username matches, counted as they
\* arrive; only the first one is parsed and returned
searchUser(username) ==
  LET found == SelectSeq(DirectoryEntries, LAMBDA e : e.uid = username)
  IN [entriesFound |-> Len(found),
      user |-> IF Len(found) >= 1 THEN found[1] ELSE NoEntry]

\* serviceBind resolves without a request to the server when no bindDN is
\* configured
ServiceBindAsks == dir.bindDN # ""

\* userExistsInLDAP: !!user after the search, false from its catch
userExistsOpen(failed, user) == failed \/ user # NoEntry
userExists(failed, user) == ~failed /\ user # NoEntry

\* ------------------------------------------------------------ authenticateToken
\* the users rows at start: carol and alice registered locally, alice's account
\* disabled, dave created by an earlier directory login
SomeAccounts ==
  [n \in Names |->
     CASE n = "carol" -> LocalAccount("pl")
       [] n = "alice" -> [LocalAccount("pl") EXCEPT !.is_active = FALSE]
       [] n = "dave" -> ExternalAccount("LDAP_AUTH", "ldap")
       [] OTHER -> NoAccount]

\* the credentials a request can carry
LtpaCookies == {NoLtpa, BadLtpa} \cup {LtpaFor(n) : n \in {"bob", "carol", "dave"}}
JwtHeaders == {NoJwt, BadJwt} \cup {JwtFor(n) : n \in {"alice", "bob", "carol"}}

MwRespond(r, code) == [r EXCEPT !.pc = "done", !.status = code]

\* the JWT part up to its SELECT: 401 without a token, 403 when jwt.verify
\* throws
TryJwt(r) ==
  IF ~r.jwt.present THEN MwRespond(r, 401)
  ELSE IF ~r.jwt.valid THEN MwRespond(r, 403)
  ELSE [r EXCEPT !.pc = "jwt_sel"]

\* after userExistsInLDAP returned: findOrCreateLTPAUser, or on to the JWT
AfterExists(r) ==
  IF r.ldapValid THEN [r EXCEPT !.pc = "ltpa_find", !.authSource = "ldap_ltpa"]
  ELSE TryJwt(r)

\* next() with req.user and req.authMethod set from the LTPA token
NextAsLtpa(r) ==
  [MwRespond(r, 200) EXCEPT !.user = r.ltpaUser, !.authMethod = r.authSource,
                            !.via = "ltpa"]

\* a request reaches authenticateToken; validateToken is run on its cookie
MwArrive ==
  /\ mw.pc \in {"idle", "done"}
  /\ \E ltpa \in LtpaCookies, jwt \in JwtHeaders :
       LET r == [MwIdle EXCEPT !.ltpa = ltpa, !.jwt = jwt]
       IN mw' =
            IF auth_mode \in {"ltpa", "ldap_ltpa", "hybrid"} /\ ltpa.present /\ ltpa.valid
            THEN LET u == [r EXCEPT !.ltpaUser = ltpa.username]
                 IN IF auth_mode = "ldap_ltpa"
                    THEN [u EXCEPT !.asked = TRUE,
                                   !.pc = IF ServiceBindAsks THEN "ex_bind" ELSE "ex_search"]
                    ELSE [u EXCEPT !.pc = "ltpa_find", !.authSource = "ltpa"]
            ELSE TryJwt(r)
  /\ UNCHANGED <<more, wopi, tk, auth_mode, accounts, dir, lg>>

\* userExistsInLDAP: the service bind
MwExistsBind ==
  /\ mw.pc = "ex_bind"
  /\ mw' = IF dir.up THEN [mw EXCEPT !.pc = "ex_search"]
           ELSE AfterExists([mw EXCEPT !.dirFailed = TRUE,
                                       !.ldapValid = userExists(TRUE, NoEntry)])
  /\ UNCHANGED <<more, wopi, tk, auth_mode, accounts, dir, lg>>

\* userExistsInLDAP: the search
MwExistsSearch ==
  /\ mw.pc = "ex_search"
  /\ mw' = IF dir.up
           THEN AfterExists([mw EXCEPT !.ldapValid =
                                         userExists(FALSE, searchUser(mw.ltpaUser).user)])
           ELSE AfterExists([mw EXCEPT !.dirFailed = TRUE,
                                       !.ldapValid = userExists(TRUE, NoEntry)])
  /\ UNCHANGED <<more, wopi, tk, auth_mode, accounts, dir, lg>>

\* findOrCreateLTPAUser: the SELECT by username; a query that rejects makes it
\* return null, and the request goes on to the JWT
MwFindLtpaUser ==
  /\ mw.pc = "ltpa_find"
  /\ \E ok \in BOOLEAN :
       mw' = IF ~ok THEN TryJwt(mw)
             ELSE IF accounts[mw.ltpaUser].present THEN [mw EXCEPT !.pc = "ltpa_update"]
             ELSE [mw EXCEPT !.pc = "ltpa_insert"]
  /\ UNCHANGED <<more, wopi, tk, auth_mode, accounts, dir, lg>>

\* findOrCreateLTPAUser: UPDATE users SET auth_source of the row found
MwUpdateLtpaUser ==
  /\ mw.pc = "ltpa_update"
  /\ \E ok \in BOOLEAN :
       IF ok
       THEN /\ accounts' = [accounts EXCEPT ![mw.ltpaUser].auth_source = mw.authSource]
            /\ mw' = NextAsLtpa(mw)
       ELSE /\ mw' = TryJwt(mw)
            /\ UNCHANGED accounts
  /\ UNCHANGED <<more, wopi, tk, auth_mode, dir, lg>>

\* findOrCreateLTPAUser: INSERT INTO users ... ON CONFLICT (username) DO UPDATE
MwInsertLtpaUser ==
  /\ mw.pc = "ltpa_insert"
  /\ \E ok \in BOOLEAN :
       IF ok
       THEN /\ accounts' =
                 [accounts EXCEPT ![mw.ltpaUser] =
                    IF @.present THEN [@ EXCEPT !.auth_source = mw.authSource]
                    ELSE ExternalAccount("EXTERNAL_AUTH", mw.authSource)]
            /\ mw' = [mw EXCEPT !.pc = "ltpa_folder"]
       ELSE /\ mw' = TryJwt(mw)
            /\ UNCHANGED accounts
  /\ UNCHANGED <<more, wopi, tk, auth_mode, dir, lg>>

\* findOrCreateLTPAUser: INSERT INTO folders
MwInsertFolder ==
  /\ mw.pc = "ltpa_folder"
  /\ \E ok \in BOOLEAN : mw' = IF ok THEN NextAsLtpa(mw) ELSE TryJwt(mw)
  /\ UNCHANGED <<more, wopi, tk, auth_mode, accounts, dir, lg>>

\* the SELECT by the id in the JWT: 401 without a row, 403 for a disabled
\* account or when the query rejects, else next()
MwJwtSelect ==
  /\ mw.pc = "jwt_sel"
  /\ \E ok \in BOOLEAN :
       LET row == accounts[mw.jwt.userId]
       IN mw' = IF ~ok THEN MwRespond(mw, 403)
                ELSE IF ~row.present THEN MwRespond(mw, 401)
                ELSE IF ~row.is_active THEN MwRespond(mw, 403)
                ELSE [MwRespond(mw, 200) EXCEPT !.user = mw.jwt.userId,
                                                !.authMethod = row.auth_source,
                                                !.via = "jwt"]
  /\ UNCHANGED <<more, wopi, tk, auth_mode, accounts, dir, lg>>

InitAuth ==
  /\ InitWopi
  /\ tk = TkIdle
  /\ auth_mode \in Modes
  /\ accounts = SomeAccounts
  /\ dir \in {[NoDirectory EXCEPT !.bindDN = b] : b \in {"", "cn=svc"}}
  /\ lg = LgIdle
  /\ mw = MwIdle
  /\ InitMore

NextAuth ==
  \/ DirFlip
  \/ MwArrive
  \/ MwExistsBind
  \/ MwExistsSearch
  \/ MwFindLtpaUser
  \/ MwUpdateLtpaUser
  \/ MwInsertLtpaUser
  \/ MwInsertFolder
  \/ MwJwtSelect

SpecAuth == InitAuth /\ [][NextAuth]_vars

\* ------------------------------------------------------------ POST /api/auth/login
LgRespond(r, code) == [r EXCEPT !.pc = "done", !.status = code]

\* the modes for which the LDAP settings are required; whether the login route
\* enters its directory branch, its local branch
ModeIncludesLdap == auth_mode \in {"ldap", "ldap_ltpa", "hybrid"}
LoginTriesLdap == auth_mode \in {"ldap", "hybrid"}
LoginTriesLocal == auth_mode \in {"local", "hybrid"}

\* after the directory branch: the local branch when there is no user yet and
\* the mode has one, 401 when there is no user, else the UPDATE of last_login
AfterLdap(r) ==
  IF r.user = "-" /\ LoginTriesLocal THEN [r EXCEPT !.pc = "local_sel", !.triedLocal = TRUE]
  ELSE IF r.user = "-" THEN LgRespond(r, 401)
  ELSE [r EXCEPT !.pc = "upd_login"]

\* ldapService.authenticate or findOrCreateLDAPUser threw: with the catch
\* around the directory branch the handler goes on without a user, without it
\* the error reaches the handler's own catch
LdapThrewUncaught(r) == LgRespond(r, 500)
LdapThrew(r) == AfterLdap([r EXCEPT !.user = "-"])

\* the request arrives: 400 from the validation; in the directory modes
\* ldapService.authenticate starts, and returns null at once for an empty
\* password
\* authenticate: if (!password) return null, for '', null and undefined
NoPasswordNever(password) == FALSE
NoPassword(password) == password \in {"", "null", Undefined}

LgArrive ==
  /\ lg.pc \in {"idle", "done"}
  /\ \E valid \in BOOLEAN, id \in Names, password \in Passwords :
       LET r == [LgIdle EXCEPT !.id = id, !.password = password]
       IN lg' =
            IF ~valid THEN LgRespond(r, 400)
            ELSE IF LoginTriesLdap
                 THEN LET a == [r EXCEPT !.triedLdap = TRUE]
                      IN IF NoPassword(password) THEN AfterLdap(a)
                         ELSE [a EXCEPT !.pc = IF ServiceBindAsks THEN "svc_bind"
                                               ELSE "search"]
            ELSE AfterLdap(r)
  /\ UNCHANGED <<more, wopi, tk, auth_mode, accounts, dir, mw>>

\* authenticate, phase 1: the service bind
LgServiceBind ==
  /\ lg.pc = "svc_bind"
  /\ lg' = IF dir.up THEN [lg EXCEPT !.pc = "search"]
           ELSE LdapThrew([lg EXCEPT !.dirFailed = TRUE])
  /\ UNCHANGED <<more, wopi, tk, auth_mode, accounts, dir, mw>>

\* authenticate, phase 2: the search; null without a user
LgSearch ==
  /\ lg.pc = "search"
  /\ lg' = IF ~dir.up THEN LdapThrew([lg EXCEPT !.dirFailed = TRUE])
           ELSE LET found == searchUser(lg.id)
                    r == [lg EXCEPT !.entriesFound = found.entriesFound,
                                    !.entry = found.user]
                IN IF found.user = NoEntry THEN AfterLdap(r)
                   ELSE [r EXCEPT !.pc = "user_bind"]
  /\ UNCHANGED <<more, wopi, tk, auth_mode, accounts, dir, mw>>

\* authenticate, phase 3: the bind as the entry's DN; an error of the bind
\* resolves null, success resolves the principal, and the handler starts
\* findOrCreateLDAPUser
LgUserBind ==
  /\ lg.pc = "user_bind"
  /\ lg' = IF ~dir.up THEN AfterLdap([lg EXCEPT !.dirFailed = TRUE])
           ELSE IF lg.entry.password # lg.password THEN AfterLdap(lg)
           ELSE [lg EXCEPT !.ldapUser = lg.entry.uid, !.authSource = "ldap",
                           !.pc = "ldap_find"]
  /\ UNCHANGED <<more, wopi, tk, auth_mode, accounts, dir, mw>>

\* findOrCreateLDAPUser: SELECT by username
LgFindLdapUser ==
  /\ lg.pc = "ldap_find"
  /\ \E ok \in BOOLEAN :
       lg' = IF ~ok THEN LdapThrew([lg EXCEPT !.dbFailed = TRUE])
             ELSE IF accounts[lg.ldapUser].present THEN [lg EXCEPT !.pc = "ldap_update"]
             ELSE [lg EXCEPT !.pc = "ldap_insert"]
  /\ UNCHANGED <<more, wopi, tk, auth_mode, accounts, dir, mw>>

\* findOrCreateLDAPUser: UPDATE users SET auth_source = 'ldap' of the row found
LgUpdateLdapUser ==
  /\ lg.pc = "ldap_update"
  /\ \E ok \in BOOLEAN :
       IF ok
       THEN /\ accounts' = [accounts EXCEPT ![lg.ldapUser].auth_source = "ldap"]
            /\ lg' = AfterLdap([lg EXCEPT !.user = lg.ldapUser])
       ELSE /\ lg' = LdapThrew([lg EXCEPT !.dbFailed = TRUE])
            /\ UNCHANGED accounts
  /\ UNCHANGED <<more, wopi, tk, auth_mode, dir, mw>>

\* findOrCreateLDAPUser: INSERT INTO users with password_hash 'LDAP_AUTH'
LgInsertLdapUser ==
  /\ lg.pc = "ldap_insert"
  /\ \E ok \in BOOLEAN :
       IF ok /\ ~accounts[lg.ldapUser].present
       THEN /\ accounts' = [accounts EXCEPT ![lg.ldapUser] =
                              ExternalAccount("LDAP_AUTH", "ldap")]
            /\ lg' = [lg EXCEPT !.pc = "ldap_folder"]
       ELSE /\ lg' = LdapThrew([lg EXCEPT !.dbFailed = TRUE])
            /\ UNCHANGED accounts
  /\ UNCHANGED <<more, wopi, tk, auth_mode, dir, mw>>

\* findOrCreateLDAPUser: INSERT INTO folders
LgInsertFolder ==
  /\ lg.pc = "ldap_folder"
  /\ \E ok \in BOOLEAN :
       lg' = IF ok THEN AfterLdap([lg EXCEPT !.user = lg.ldapUser])
             ELSE LdapThrew([lg EXCEPT !.dbFailed = TRUE])
  /\ UNCHANGED <<more, wopi, tk, auth_mode, accounts, dir, mw>>

\* the local branch: SELECT ... AND is_active = true, then bcrypt.compare for
\* a row whose auth_source is 'local'
\* "Skip password check for LDAP/LTPA users": auth_source === 'local' || !auth_source
ChecksPasswordAlways(auth_source) == TRUE
ChecksPassword(auth_source) == auth_source = "local" \/ auth_source \in {"", "null"}

LgLocalSelect ==
  /\ lg.pc = "local_sel"
  /\ \E ok \in BOOLEAN :
       LET row == accounts[lg.id]
       IN lg' = IF ~ok THEN LgRespond([lg EXCEPT !.dbFailed = TRUE], 500)
                ELSE IF row.present /\ row.is_active /\ ChecksPassword(row.auth_source)
                        /\ BcryptCompare(lg.password, row.password_hash)
                     THEN [lg EXCEPT !.user = lg.id, !.authSource = "local",
                                     !.pc = "upd_login"]
                ELSE LgRespond(lg, 401)
  /\ UNCHANGED <<more, wopi, tk, auth_mode, accounts, dir, mw>>

\* UPDATE users SET last_login, then the tokens
LgUpdateLogin ==
  /\ lg.pc = "upd_login"
  /\ \E ok \in BOOLEAN :
       lg' = IF ok THEN [lg EXCEPT !.pc = "audit"]
             ELSE LgRespond([lg EXCEPT !.dbFailed = TRUE], 500)
  /\ UNCHANGED <<more, wopi, tk, auth_mode, accounts, dir, mw>>

\* INSERT INTO audit_log, then res.json
LgAudit ==
  /\ lg.pc = "audit"
  /\ \E ok \in BOOLEAN :
       lg' = IF ok THEN LgRespond(lg, 200)
             ELSE LgRespond([lg EXCEPT !.dbFailed = TRUE], 500)
  /\ UNCHANGED <<more, wopi, tk, auth_mode, accounts, dir, mw>>

\* the users rows after LTPA requests: carol's row updated by
\* findOrCreateLTPAUser, bob's row inserted by it
TokenAccounts ==
  [SomeAccounts EXCEPT !["carol"].auth_source = "ltpa",
                       !["bob"] = ExternalAccount("EXTERNAL_AUTH", "ldap_ltpa")]

InitLogin ==
  /\ InitWopi
  /\ tk = TkIdle
  /\ auth_mode \in Modes
  /\ accounts \in {SomeAccounts, [SomeAccounts EXCEPT !["alice"].is_active = TRUE],
                   TokenAccounts}
  /\ dir \in {[NoDirectory EXCEPT !.bindDN = b] : b \in {"", "cn=svc"}}
  /\ lg = LgIdle
  /\ mw = MwIdle
  /\ InitMore

NextLogin ==
  \/ DirFlip
  \/ LgArrive
  \/ LgServiceBind
  \/ LgSearch
  \/ LgUserBind
  \/ LgFindLdapUser
  \/ LgUpdateLdapUser
  \/ LgInsertLdapUser
  \/ LgInsertFolder
  \/ LgLocalSelect
  \/ LgUpdateLogin
  \/ LgAudit

SpecLogin == InitLogin /\ [][NextLogin]_vars

\* ------------------------------------------------------------ the LTPA service
\* the secrets a service can be configured with; S1 has 24 bytes
S1 == [id |-> "s1", long |-> TRUE]
S2 == [id |-> "s2", long |-> FALSE]

\* user names: the strings of up to MaxNameLen of these characters
NameChars == {"n", "c", "=", "/", ",", "$", "%", "9"}
UserNames == UNION {{Str(cs) : cs \in [1..n -> NameChars]} : n \in 1..MaxNameLen}

\* attribute maps
AttributeMaps ==
  {<<>>,
   << <<Str(<<"m">>), Str(<<"x">>)>> >>,
   << <<Str(<<"m">>), Str(<<"x">>)>>, <<Str(<<"c", "n">>), Str(<<"y">>)>> >>}

\* the plaintext of a token for user n that another server made, expiring at e
ForeignContent(e) ==
  Str(<<"u", ":", "u", "s", "e", "r", ":", "R", "/", "n">>) \o Str(<<"%">>)
    \o NumberToString(e)

\* tokens that generateToken of this service did not make, by class
ForgedLtpa(class, e, keys) ==
  LET signed == ForeignContent(e) \o Str(<<"%">>) \o Hmac(keys.hmacKey, ForeignContent(e))
      missigned == ForeignContent(e) \o Str(<<"%">>) \o Hmac(S2.id, ForeignContent(e))
  IN CASE class = "absent" -> NoLtpaToken
       [] class = "garbage" -> LtpaGarbage
       [] class = "otherkey" -> encryptToken(signed, deriveKeys(S2))
       [] class = "nopercent" ->
            encryptToken(Str(<<"u", ":", "u", "s", "e", "r", ":", "R", "/", "n">>), keys)
       [] class = "nouser" -> encryptToken(Str(<<"n", "%">>) \o NumberToString(e), keys)
       [] class = "unsigned" -> encryptToken(ForeignContent(e), keys)
       [] class = "emptyexpiry" ->
            encryptToken(Str(<<"u", ":", "u", "s", "e", "r", ":", "R", "/", "n", "%">>), keys)
       [] class = "wordexpiry" ->
            encryptToken(Str(<<"u", ":", "u", "s", "e", "r", ":", "R", "/", "n", "%", "n">>),
                         keys)
       [] class = "missigned" -> encryptToken(missigned, keys)
       [] class = "aes" -> [encryptToken(missigned, keys) EXCEPT !.cipher = "aes-128-cbc"]
       [] class = "raw" -> [encryptToken(missigned, keys) EXCEPT !.cipher = "des-ede3-cbc-raw"]
       [] class = "urlencoded" -> EncodeURIComponent(encryptToken(signed, keys))
       [] OTHER -> encryptToken(signed, keys)

LtpaClasses == {"absent", "garbage", "otherkey", "nopercent", "nouser", "unsigned",
                "emptyexpiry", "wordexpiry", "missigned", "aes", "raw", "urlencoded",
                "signed"}

\* generateToken(username, attributes)
LtGenerate ==
  /\ lt.phase = "idle"
  /\ lt.keys.present
  /\ \E username \in UserNames, attributes \in AttributeMaps :
       lt' = [lt EXCEPT !.phase = "made", !.class = "minted",
                        !.username = username, !.attributes = attributes,
                        !.mintedAt = lt.clock,
                        !.expireAt = lt.clock + TokenExpiration,
                        !.token = generateToken(username, attributes, lt.clock, lt.keys,
                                                lt.realm, TokenExpiration),
                        !.result = NoPrincipal]
  /\ UNCHANGED <<wopi, tk, auth_mode, accounts, dir, lg, mw, ad, dc, fl>>

\* a request brings a token from elsewhere
LtForge ==
  /\ lt.phase = "idle"
  /\ \E class \in LtpaClasses :
       lt' = [lt EXCEPT !.phase = "made", !.class = class,
                        !.username = Str(<<"n">>), !.attributes = <<>>,
                        !.mintedAt = lt.clock,
                        !.expireAt = IF class \in {"absent", "garbage", "nopercent",
                                                   "emptyexpiry", "wordexpiry"}
                                     THEN NaN ELSE lt.clock + TokenExpiration,
                        !.token = ForgedLtpa(class, lt.clock + TokenExpiration, lt.keys),
                        !.result = NoPrincipal]
  /\ UNCHANGED <<wopi, tk, auth_mode, accounts, dir, lg, mw, ad, dc, fl>>

\* an hour passes while the token is kept
LtTick ==
  /\ lt.phase = "made"
  /\ lt.clock < MaxLtpaClock
  /\ lt' = [lt EXCEPT !.clock = lt.clock + 1]
  /\ UNCHANGED <<wopi, tk, auth_mode, accounts, dir, lg, mw, ad, dc, fl>>

\* validateToken(token)
LtValidate ==
  /\ lt.phase = "made"
  /\ lt' = [lt EXCEPT !.phase = "validated",
                      !.result = validateToken(lt.token, lt.clock, lt.keys, lt.format,
                                               lt.realm)]
  /\ UNCHANGED <<wopi, tk, auth_mode, accounts, dir, lg, mw, ad, dc, fl>>

\* the next token
LtNext ==
  /\ lt.phase = "validated"
  /\ lt' = [LtIdle EXCEPT !.secretKey = lt.secretKey, !.keys = lt.keys,
                          !.realm = lt.realm, !.format = lt.format,
                          !.method = lt.method,
                          !.configFile = lt.configFile, !.clock = lt.clock]
  /\ UNCHANGED <<wopi, tk, auth_mode, accounts, dir, lg, mw, ad, dc, fl>>

InitLtpa ==
  /\ InitWopi
  /\ tk = TkIdle
  /\ auth_mode = "ltpa"
  /\ accounts = NoAccounts
  /\ dir = NoDirectory
  /\ lg = LgIdle
  /\ mw = MwIdle
  /\ \E format \in UserFormats :
       lt = [LtIdle EXCEPT !.secretKey = S1, !.keys = deriveKeys(S1), !.configFile = S1,
                           !.format = format]
  /\ ad = [s \in AdSlots |-> AdIdle]
  /\ dc = DcIdle
  /\ fl = FlIdle

NextLtpa == LtGenerate \/ LtForge \/ LtTick \/ LtValidate \/ LtNext

SpecLtpa == InitLtpa /\ [][NextLtpa]_vars

\* ------------------------------------------------------- the LTPA admin routes
AdRespond(r, code) == [r EXCEPT !.pc = "done", !.status = code]

\* a token for one user, or one under another secret, for the validations
\* that run between the steps of the admin requests
AdGenerate ==
  /\ lt.phase = "idle"
  /\ lt.keys.present
  /\ lt' = [lt EXCEPT !.phase = "made", !.class = "minted",
                      !.username = Str(<<"n">>), !.expireAt = lt.clock + TokenExpiration,
                      !.token = generateToken(Str(<<"n">>), <<>>, lt.clock, lt.keys,
                                              lt.realm, TokenExpiration)]
  /\ UNCHANGED <<wopi, tk, auth_mode, accounts, dir, lg, mw, ad, dc, fl>>

\* the request passed authenticateToken and requireAdmin: 400 without a
\* secret (configure) or without file or password (upload), else the handler
\* starts its first file operation; the secret of an upload is the 3DESKey
\* line of its keys file, which the file may lack
AdArrive(s) ==
  /\ ad[s].pc \in {"idle", "done"}
  /\ \E op \in {"upload", "configure", "delete"}, secretKey \in {NoSecret, S1, S2},
        given \in BOOLEAN :
       /\ op = "delete" => secretKey = NoSecret
       /\ op # "upload" => given
       /\ ~given => secretKey = NoSecret
       /\ ad' = [ad EXCEPT ![s] =
            LET r == [AdIdle EXCEPT !.op = op, !.secretKey = secretKey]
            IN IF op = "configure" /\ secretKey = NoSecret THEN AdRespond(r, 400)
               ELSE IF op = "upload" /\ ~given THEN AdRespond(r, 400)
               ELSE [r EXCEPT !.pc = IF op = "delete" THEN "unlink" ELSE "store"]]
  /\ UNCHANGED <<wopi, tk, auth_mode, accounts, dir, lg, mw, lt, dc, fl>>

\* ltpaService.keys = ltpaService.deriveKeys() after config.secretKey was set:
\* the keys of the secret when the service has a method of that name, else
\* the call throws and the keys stay
Reinitialize(service, secretKey) ==
  IF service.method = "deriveKeys"
  THEN [service EXCEPT !.secretKey = secretKey, !.keys = deriveKeys(secretKey)]
  ELSE [service EXCEPT !.secretKey = secretKey]
ReinitializeThrows(service) == service.method # "deriveKeys"

\* ltpaKeysService.storeKeys: writes ltpa-config.json; a rejection gives 500.
\* configure then sets the service's secret and keys and answers, upload goes
\* on to loadConfig
AdStore(s) ==
  /\ ad[s].pc = "store"
  /\ \E ok \in BOOLEAN :
       IF ~ok
       THEN /\ ad' = [ad EXCEPT ![s] = AdRespond(@, 500)]
            /\ UNCHANGED lt
       ELSE IF ad[s].op = "upload"
       THEN /\ ad' = [ad EXCEPT ![s].pc = "load"]
            /\ lt' = [lt EXCEPT !.configFile = ad[s].secretKey]
       ELSE LET stored == [lt EXCEPT !.configFile = ad[s].secretKey]
            IN /\ lt' = Reinitialize(stored, ad[s].secretKey)
               /\ ad' = [ad EXCEPT ![s] =
                           AdRespond(@, IF ReinitializeThrows(stored) THEN 500 ELSE 200)]
  /\ UNCHANGED <<wopi, tk, auth_mode, accounts, dir, lg, mw, dc, fl>>

\* upload: ltpaKeysService.loadConfig, null without a file; with a config
\* that has a desKey the service's secret and keys are set from it
AdLoad(s) ==
  /\ ad[s].pc = "load"
  /\ \E ok \in BOOLEAN :
       IF ~ok
       THEN /\ ad' = [ad EXCEPT ![s] = AdRespond(@, 500)]
            /\ UNCHANGED lt
       ELSE IF lt.configFile = NoSecret
       THEN /\ ad' = [ad EXCEPT ![s] = AdRespond(@, 200)]
            /\ UNCHANGED lt
       ELSE /\ lt' = Reinitialize(lt, lt.configFile)
            /\ ad' = [ad EXCEPT ![s] =
                        AdRespond([@ EXCEPT !.loaded = lt.configFile],
                                  IF ReinitializeThrows(lt) THEN 500 ELSE 200)]
  /\ UNCHANGED <<wopi, tk, auth_mode, accounts, dir, lg, mw, dc, fl>>

\* delete: ltpaKeysService.deleteConfig, then config.secretKey = '' and
\* keys = null
AdUnlink(s) ==
  /\ ad[s].pc = "unlink"
  /\ lt' = [lt EXCEPT !.configFile = NoSecret, !.secretKey = NoSecret, !.keys = NoKeys]
  /\ ad' = [ad EXCEPT ![s] = AdRespond(@, 200)]
  /\ UNCHANGED <<wopi, tk, auth_mode, accounts, dir, lg, mw, dc, fl>>

\* the service as constructed from LTPA_SECRET_KEY; its class has the method
\* deriveKeys in services/ltpa.js and _deriveKeys in the later version
InitAdmin ==
  /\ InitWopi
  /\ tk = TkIdle
  /\ auth_mode = "ltpa"
  /\ accounts = NoAccounts
  /\ dir = NoDirectory
  /\ lg = LgIdle
  /\ mw = MwIdle
  /\ \E method \in {"deriveKeys", "_deriveKeys"}, secretKey \in {NoSecret, S1} :
       lt = [LtIdle EXCEPT !.method = method, !.secretKey = secretKey,
                           !.keys = deriveKeys(secretKey), !.configFile = secretKey]
  /\ ad = [s \in AdSlots |-> AdIdle]
  /\ dc = DcIdle
  /\ fl = FlIdle

NextAdmin ==
  \/ AdGenerate
  \/ LtValidate
  \/ LtNext
  \/ \E s \in AdSlots : AdArrive(s) \/ AdStore(s) \/ AdLoad(s) \/ AdUnlink(s)

SpecAdmin == InitAdmin /\ [][NextAdmin]_vars

\* ---------------------------------------------- calls of the discovery service
DcTick ==
  /\ dc.now < MaxDcTicks * DcTickStep
  /\ dc' = [dc EXCEPT !.now = @ + DcTickStep]
  /\ UNCHANGED <<wopi, tk, auth_mode, accounts, dir, lg, mw, lt, ad, fl>>

\* clearCache; a call that waits for its remote request is marked as one that
\* asked before the clear
clearCache ==
  /\ dc' = [dc EXCEPT !.cache = NoDiscovery, !.cacheTime = 0, !.fetched = FALSE,
                      !.calls = [s \in DcSlots |->
                                   [@[s] EXCEPT !.cleared = @ \/ dc.calls[s].pc = "fetch"]]]
  /\ UNCHANGED <<wopi, tk, auth_mode, accounts, dir, lg, mw, lt, ad, fl>>

DcFetchDiscovery(s) ==
  /\ dc.calls[s].pc = "idle"
  /\ LET went == Called([DcCallIdle EXCEPT !.op = "fetchDiscovery"], dc.last, dc.cache,
                        dc.cacheTime, dc.now)
     IN dc' = [dc EXCEPT !.calls[s] = went[1], !.last = went[2]]
  /\ UNCHANGED <<wopi, tk, auth_mode, accounts, dir, lg, mw, lt, ad, fl>>

DcBuildEditorUrl(s) ==
  /\ dc.calls[s].pc = "idle"
  /\ \E fileName \in FileNames, permission \in {"edit", "view"} :
       LET went == Called([DcCallIdle EXCEPT !.op = "buildEditorUrl", !.fileId = "f1",
                                             !.fileName = fileName,
                                             !.accessToken = "jwt",
                                             !.action = IF permission = "view"
                                                        THEN "view" ELSE "edit"],
                          dc.last, dc.cache, dc.cacheTime, dc.now)
       IN dc' = [dc EXCEPT !.calls[s] = went[1], !.last = went[2]]
  /\ UNCHANGED <<wopi, tk, auth_mode, accounts, dir, lg, mw, lt, ad, fl>>

\* discoveryCache and discoveryCacheTime when the fetch has settled: assigned
\* at the end of the try block, not touched by the catch
CacheAfterCleared(ok, cache, fresh) == IF ok THEN fresh ELSE NoDiscovery
CacheAfter(ok, cache, fresh) == IF ok THEN fresh ELSE cache
CacheTimeAfter(ok, cacheTime, t) == IF ok THEN t ELSE cacheTime

\* the fetch settles: a discovery document with response.ok, which is parsed
\* and cached under the time the call began, or a failure, which leaves the
\* cache and returns it, with the warning "Using stale discovery cache" when
\* there is one
DcSettle(s, ok, xml) ==
  /\ dc.calls[s].pc = "fetch"
  /\ LET r == dc.calls[s]
         cache == CacheAfter(ok, dc.cache,
                             [present |-> TRUE, xml |-> xml,
                              actions |-> parseDiscoveryXML(xml, << >>),
                              fetchedAt |-> r.t])
         cacheTime == CacheTimeAfter(ok, dc.cacheTime, r.t)
         went == Returned(r, dc.last, TRUE, cache, cache, cacheTime, dc.now)
     IN dc' = [dc EXCEPT !.cache = cache, !.cacheTime = cacheTime,
                         !.fetched = @ \/ ok,
                         !.calls[s] = went[1],
                         !.last = [went[2] EXCEPT !.stale = ~ok /\ cache.present]]
  /\ UNCHANGED <<wopi, tk, auth_mode, accounts, dir, lg, mw, lt, ad, fl>>

DcResponse(s) ==
  \/ \E xml \in Docs : DcSettle(s, TRUE, xml)
  \/ DcSettle(s, FALSE, DocEmpty)

InitDiscovery ==
  /\ InitWopi
  /\ tk = TkIdle
  /\ auth_mode = "local"
  /\ accounts = NoAccounts
  /\ dir = NoDirectory
  /\ lg = LgIdle
  /\ mw = MwIdle
  /\ InitMore

NextDiscovery ==
  \/ DcTick
  \/ clearCache
  \/ \E s \in DcSlots : DcFetchDiscovery(s) \/ DcResponse(s)
  \/ \E s \in DcBuilders : DcBuildEditorUrl(s)

SpecDiscovery == InitDiscovery /\ [][NextDiscovery]_vars

\* SpecRefresh: fetchDiscovery calls, two at a time, while time passes, remote
\* requests succeed or fail, and the cache is cleared now and then
NextRefresh ==
  \/ DcTick
  \/ clearCache
  \/ \E s \in DcSlots : DcFetchDiscovery(s) \/ DcResponse(s)

SpecRefresh == InitDiscovery /\ [][NextRefresh]_vars

\* ------------------------------------------------------ building search filters
\* LDAP_USER_SEARCH_FILTER: the two defaults and one with a presence test
UidFilter == Str(<<"(", "u", "i", "d", "=">>) \o <<UsernamePlaceholder>> \o Str(<<")">>)
DominoFilter ==
  Str(<<"(", "|", "(", "m", "a", "i", "l", "=">>) \o <<UsernamePlaceholder>>
    \o Str(<<")", "(", "c", "n", "=">>) \o <<UsernamePlaceholder>>
    \o Str(<<")", "(", "s", "h", "o", "r", "t", "N", "a", "m", "e", "=">>)
    \o <<UsernamePlaceholder>> \o Str(<<")", ")">>)
PersonFilter ==
  Str(<<"(", "&", "(", "o", "b", "j", "e", "c", "t", "C", "l", "a", "s", "s", "=", "*",
        ")", "(", "u", "i", "d", "=">>) \o <<UsernamePlaceholder>> \o Str(<<")", ")">>)
FilterTemplates == {UidFilter, DominoFilter, PersonFilter}

\* the characters of the user names
FilterChars == {"a", "(", ")", "*", "\\", "$", "'", "backtick"}
FilterUserNames ==
  UNION { { Str(cs) : cs \in [1..n -> FilterChars] } : n \in 0..MaxUserLen }

FlBuildFilter ==
  /\ fl.phase = "idle"
  /\ \E userSearchFilter \in FilterTemplates, username \in FilterUserNames :
       fl' = [phase |-> "built", userSearchFilter |-> userSearchFilter,
              username |-> username,
              filter |-> _buildFilter(userSearchFilter, username)]
  /\ UNCHANGED <<wopi, tk, auth_mode, accounts, dir, lg, mw, lt, ad, dc>>

FlNext ==
  /\ fl.phase = "built"
  /\ fl' = FlIdle
  /\ UNCHANGED <<wopi, tk, auth_mode, accounts, dir, lg, mw, lt, ad, dc>>

InitFilter ==
  /\ InitWopi
  /\ tk = TkIdle
  /\ auth_mode = "ldap"
  /\ accounts = NoAccounts
  /\ dir = NoDirectory
  /\ lg = LgIdle
  /\ mw = MwIdle
  /\ InitMore

NextFilter == FlBuildFilter \/ FlNext

SpecFilter == InitFilter /\ [][NextFilter]_vars

\* ------------------------------------------------------------------- claims
\* the step of the current transition is one of request s
Steps(s) == InFlight(s) /\ req'[s] # req[s]

\* C1: in every reachable state each file has at most one live lock row
\* (expires_at > now), whatever Lock, GetLock, RefreshLock, Unlock and PutFile
\* requests interleave and however time passes
C1_OneLiveLockPerFile == \A f \in FileIds : Cardinality(LiveLocks(f)) <= 1

\* two Lock requests with different values have both written the lock table
\* and one live row is left
C1_Witness ==
  /\ \E s, t \in Slots :
       /\ req[s].pc = "done" /\ req[s].op = "LOCK" /\ req[s].status = 200
       /\ req[t].pc = "done" /\ req[t].op = "LOCK" /\ req[t].status = 200
       /\ req[s].lock # req[t].lock
  /\ Cardinality(LiveLocks("f1")) = 1

\* C2 (as claimed): a request whose token was minted for another file than
\* the one in its path gets no 200 response and changes no stored state
C2_TokenBoundToFile ==
  [][\A s \in Slots :
       (Steps(s) /\ req[s].tok.fileId # req[s].fileId)
         => /\ req'[s].status # 200
            /\ UNCHANGED <<files, disk, snaps, file_versions, file_locks, storage_used>>]_vars

\* C3: a Lock that succeeds leaves a live row with its value and its caller
\* as holder; a Lock(b) that meets a live lock with another value a answers
\* 409 with X-WOPI-Lock a and leaves the lock table as it is
C3_SecondLockConflicts ==
  [][\A s \in Slots :
       /\ (Steps(s) /\ req[s].pc = "lock_ins" /\ req'[s].status = 200)
            => \E l \in file_locks' :
                 /\ l.file_id = req[s].fileId /\ l.lock_id = req[s].lock
                 /\ l.locked_by = req[s].tok.userId /\ l.expires_at > now'
       /\ (Steps(s) /\ req[s].pc = "lock_sel"
             /\ \E l \in LiveLocks(req[s].fileId) : l.lock_id # req[s].lock)
            => /\ req'[s].pc = "done"
               /\ req'[s].status = 409
               /\ \E l \in LiveLocks(req[s].fileId) : req'[s].xlock = l.lock_id
               /\ file_locks' = file_locks]_vars

\* Lock(a) returned 200, Lock(b) returned 409 naming a, and a is still the
\* live lock
C3_Witness ==
  \E s, t \in Slots :
    /\ req[s].pc = "done" /\ req[s].op = "LOCK" /\ req[s].status = 200
    /\ req[t].pc = "done" /\ req[t].op = "LOCK" /\ req[t].status = 409
    /\ req[t].lock # req[s].lock
    /\ req[t].xlock = req[s].lock
    /\ \E l \in LiveLocks("f1") : l.lock_id = req[s].lock

\* C4 (as claimed): Lock requests on a file are serialized, so a Lock never
\* returns 200 while the file holds a live lock with another value: the
\* later of two concurrent Locks gets 409
C4_LocksSerialized ==
  [][\A s \in Slots :
       (Steps(s) /\ req[s].op = "LOCK" /\ req'[s].status = 200)
         => \A l \in LiveLocks(req[s].fileId) : l.lock_id = req[s].lock]_vars

\* C5 (as claimed): a PutFile or PutRelative request whose token is neither
\* edit nor admin writes no bytes, creates no file record, adds no
\* FileVersion and changes no version or storage counter
C5_WritesNeedEdit ==
  [][\A s \in Slots :
       (Steps(s) /\ req[s].op \in {"PUT", "PUT_RELATIVE"}
          /\ req[s].tok.permissions \notin {"edit", "admin"})
         => UNCHANGED <<files, disk, snaps, file_versions, storage_used>>]_vars

\* C6 (as claimed): a RenameFile or DeleteFile request of a user who is not
\* the file's owner leaves the file record unchanged
C6_OwnerOnlyRenameDelete ==
  [][\A s \in Slots :
       (Steps(s) /\ req[s].op \in {"RENAME_FILE", "DELETE"}
          /\ req[s].tok.userId # files[req[s].fileId].owner_id)
         => files' = files]_vars

\* the version numbers of a file's FileVersion rows are pairwise different
NoVersionReused ==
  \A x, y \in file_versions :
    (x.file_id = y.file_id /\ x.version = y.version) => x = y

\* C7: the INSERT of a PutFile adds exactly one FileVersion row, numbered with
\* the file's current version; its UPDATE raises the file's version by
\* exactly 1; no version number is used for two rows of a file
C7_PutFileBumpsVersionOnce ==
  [][/\ \A s \in Slots :
          /\ (Steps(s) /\ req[s].pc = "put_ins_ver" /\ req'[s].pc = "put_write")
               => /\ Cardinality(file_versions') = Cardinality(file_versions) + 1
                  /\ \E x \in file_versions' \ file_versions :
                       /\ x.file_id = req[s].fileId
                       /\ x.version = files[req[s].fileId].version
          /\ (Steps(s) /\ req[s].pc = "put_upd_file" /\ req'[s].pc = "put_upd_user")
               => files'[req[s].fileId].version = files[req[s].fileId].version + 1
     /\ NoVersionReused']_vars

\* two PutFile calls returned 200 and the file is at version 3 with the two
\* rows 1 and 2
C7_Witness ==
  /\ \E s \in Slots :
       req[s].pc = "done" /\ req[s].op = "PUT" /\ req[s].status = 200
         /\ req[s].itemVersion = 3
  /\ files["f1"].version = 3
  /\ {x.version : x \in {y \in file_versions : y.file_id = "f1"}} = {1, 2}

\* C8 (as claimed): the snapshot file of every FileVersion row holds the bytes
\* the file had when it was at that version
C8_SnapshotsFaithful ==
  \A x \in file_versions :
    \E sn \in snaps, vb \in verBytes :
      /\ sn.file_id = x.file_id /\ sn.version = x.version
      /\ vb.file_id = x.file_id /\ vb.version = x.version
      /\ sn.bytes = vb.bytes

\* C9: a PutFile that meets a live lock whose value is not its X-WOPI-Lock
\* (an absent header too) answers 409 with the stored value, and neither that
\* step nor any earlier one of the call changed bytes, version, FileVersion
\* rows or storage counter
C9_PutFileLockMismatch ==
  [][\A s \in Slots :
       (Steps(s) /\ req[s].pc = "put_sel_lock" /\ req'[s].status # 500
          /\ \E l \in LiveLocks(req[s].fileId) : l.lock_id # req[s].lock)
         => /\ req'[s].pc = "done"
            /\ req'[s].status = 409
            /\ \E l \in LiveLocks(req[s].fileId) : req'[s].xlock = l.lock_id
            /\ ~req'[s].dirty
            /\ UNCHANGED <<files, disk, snaps, file_versions, storage_used>>]_vars

\* a PutFile without X-WOPI-Lock and one with another value both got 409
\* naming the live lock
C9_Witness ==
  /\ \E s, t \in Slots :
       /\ req[s].pc = "done" /\ req[s].op = "PUT" /\ req[s].status = 409
       /\ req[s].lock = Undefined /\ req[s].xlock = "a"
       /\ req[t].pc = "done" /\ req[t].op = "PUT" /\ req[t].status = 409
       /\ req[t].lock = "b" /\ req[t].xlock = "a"
  /\ \E l \in LiveLocks("f1") : l.lock_id = "a"
  /\ files["f1"].version = 1 /\ disk["f1"] = InitBytes /\ file_versions = {}

\* C10 (as claimed): a PutFile that answered 500 has changed neither bytes,
\* version, FileVersion rows nor storage counter
C10_FailedPutFileChangesNothing ==
  \A s \in Slots :
    (req[s].pc = "done" /\ req[s].op = "PUT" /\ req[s].status = 500) => ~req[s].dirty

\* C11 (as claimed): an Unlock on a file without a live lock, whose only lock
\* row is expired, never answers 409, whatever value it presents
C11_ExpiredLockIsAbsent ==
  [][\A s \in Slots :
       (Steps(s) /\ req[s].pc = "unlock_sel" /\ LiveLocks(req[s].fileId) = {})
         => req'[s].status # 409]_vars

\* C12: an Unlock that presents the value of the live lock goes on to its
\* DELETE, which answers 200 with an empty X-WOPI-Lock and leaves the file
\* without a lock row; an Unlock on a file without a lock row answers 200 and
\* changes nothing; an Unlock that presents another value than the live lock
\* answers 409 naming it and leaves the lock table as it is
C12_UnlockIdempotent ==
  [][\A s \in Slots :
       /\ (Steps(s) /\ req[s].pc = "unlock_sel"
             /\ \E l \in LiveLocks(req[s].fileId) : l.lock_id = req[s].lock)
            => /\ req'[s].pc = "unlock_del"
               /\ file_locks' = file_locks
       /\ (Steps(s) /\ req[s].pc = "unlock_del")
            => /\ req'[s].pc = "done" /\ req'[s].status = 200 /\ req'[s].xlock = ""
               /\ \A l \in file_locks' : l.file_id # req[s].fileId
               /\ \A l \in file_locks : l.file_id # req[s].fileId => l \in file_locks'
       /\ (Steps(s) /\ req[s].pc = "unlock_sel" /\ AnyLocks(req[s].fileId) = {})
            => /\ req'[s].pc = "done" /\ req'[s].status = 200 /\ req'[s].xlock = ""
               /\ file_locks' = file_locks
       /\ (Steps(s) /\ req[s].pc = "unlock_sel"
             /\ \E l \in LiveLocks(req[s].fileId) : l.lock_id # req[s].lock)
            => /\ req'[s].pc = "done" /\ req'[s].status = 409
               /\ \E l \in LiveLocks(req[s].fileId) : req'[s].xlock = l.lock_id
               /\ file_locks' = file_locks]_vars

\* Unlock(b) got 409 naming the live lock a, Unlock(a) got 200, and the file
\* has no lock row any more
C12_Witness ==
  /\ \E s, t \in Slots :
       /\ req[s].pc = "done" /\ req[s].op = "UNLOCK" /\ req[s].status = 409
       /\ req[s].lock = "b" /\ req[s].xlock = "a"
       /\ req[t].pc = "done" /\ req[t].op = "UNLOCK" /\ req[t].status = 200
       /\ req[t].lock = "a" /\ req[t].xlock = ""
  /\ AnyLocks("f1") = {}

\* C13 (as claimed): a RefreshLock that answers 200 leaves a lock row with the
\* presented value that expires 30 minutes after now; a RefreshLock that finds
\* no live lock with the presented value answers 409 and leaves the lock table
\* as it is
C13_RefreshNeedsLiveLock ==
  [][\A s \in Slots :
       /\ (Steps(s) /\ req[s].op = "REFRESH_LOCK" /\ req'[s].status = 200)
            => \E l \in file_locks' :
                 /\ l.file_id = req[s].fileId /\ l.lock_id = req[s].lock
                 /\ l.expires_at = now' + LockTTL
       /\ (Steps(s) /\ req[s].pc = "refresh_sel"
             /\ ~\E l \in LiveLocks(req[s].fileId) : l.lock_id = req[s].lock)
            => /\ req'[s].pc = "done" /\ req'[s].status = 409
               /\ file_locks' = file_locks]_vars

\* C14 (as claimed): every 409 of Lock, RefreshLock, Unlock and PutFile
\* carries the value of the file's live lock, or the empty string when the
\* file has none
C14_ConflictCarriesLiveLock ==
  [][\A s \in Slots :
       (Steps(s) /\ req[s].op \in {"LOCK", "REFRESH_LOCK", "UNLOCK", "PUT"}
          /\ req'[s].status = 409)
         => IF LiveLocks(req[s].fileId) = {}
            THEN req'[s].xlock = ""
            ELSE \E l \in LiveLocks(req[s].fileId) : req'[s].xlock = l.lock_id]_vars

C16_VerifyFailsClosed ==
  tk.phase = "verified"
    => /\ tk.class \in {"absent", "garbage", "wrongkey", "notjson", "jsonnull"}
            => tk.result = NullPayload
       /\ (tk.class = "minted" /\ tk.clock - tk.mintedAt > TokenMaxAge)
            => tk.result = NullPayload
       /\ (tk.class = "minted" /\ tk.result # NullPayload)
            => tk.clock - tk.mintedAt <= TokenMaxAge

\* a minted token was refused after more than 24 hours
C16_Witness ==
  /\ tk.phase = "verified" /\ tk.class = "minted"
  /\ tk.clock - tk.mintedAt > TokenMaxAge
  /\ tk.result = NullPayload

\* C17: in mode ldap_ltpa a request that went on as the user of its LTPA
\* token had a valid token, and userExistsInLDAP was called for that username
\* and returned true: the directory answered and has an entry for it
C17_LtpaNeedsDirectoryUser ==
  (auth_mode = "ldap_ltpa" /\ mw.via = "ltpa")
    => /\ mw.ltpa.valid /\ mw.user = mw.ltpa.username
       /\ mw.asked /\ mw.ldapValid /\ ~mw.dirFailed
       /\ searchUser(mw.ltpa.username).entriesFound >= 1

\* a valid token for carol, who has an account and no directory entry, with
\* no JWT: the directory was asked and the request got 401
C17_Witness ==
  /\ auth_mode = "ldap_ltpa" /\ mw.pc = "done"
  /\ mw.ltpa = LtpaFor("carol") /\ mw.jwt = NoJwt
  /\ mw.asked /\ ~mw.dirFailed /\ ~mw.ldapValid
  /\ mw.via = "-" /\ mw.status = 401

\* the directory has exactly one entry for the name, and its password is this
DirectoryCredentials(id, password) ==
  /\ searchUser(id).entriesFound = 1
  /\ password # ""
  /\ searchUser(id).user.password = password

\* C18 (as claimed): in the modes ldap, ldap_ltpa and hybrid a login that was
\* answered 401 had called the directory authentication, and a login with the
\* one directory entry's password, during which neither the directory nor the
\* database failed, is answered 200
C18_LdapModesTryDirectory ==
  (lg.pc = "done" /\ ModeIncludesLdap)
    => /\ lg.status = 401 => lg.triedLdap
       /\ (DirectoryCredentials(lg.id, lg.password) /\ lg.status # 400
             /\ ~lg.dirFailed /\ ~lg.dbFailed)
            => lg.status = 200

\* C19: a login during which a directory operation failed and no query did is
\* never answered 500; in mode ldap it is answered 401, in mode hybrid it
\* went through the local branch, which alone decided between 200 and 401
C19_DirectoryDownIsNot500 ==
  (lg.pc = "done" /\ lg.dirFailed /\ ~lg.dbFailed)
    => /\ lg.status # 500
       /\ auth_mode = "ldap" => lg.status = 401
       /\ auth_mode = "hybrid"
            => /\ lg.triedLocal
               /\ lg.status \in {200, 401}
               /\ lg.status = 200 => lg.authSource = "local" /\ lg.user = lg.id

\* mode hybrid, the directory did not answer, and carol was logged in by her
\* local password
C19_Witness ==
  /\ auth_mode = "hybrid" /\ lg.pc = "done" /\ lg.dirFailed /\ ~lg.dbFailed
  /\ lg.id = "carol" /\ lg.password = "pl"
  /\ lg.triedLdap /\ lg.triedLocal /\ lg.status = 200 /\ lg.authSource = "local"

\* C20 (as claimed): authenticate returned a principal only after a search
\* that found exactly one entry and a bind as that entry with the password
C20_PrincipalNeedsSingleEntry ==
  lg.ldapUser # "-"
    => /\ lg.entriesFound = 1
       /\ lg.entry.uid = lg.ldapUser
       /\ lg.entry.password = lg.password

\* C21 (as claimed): in mode hybrid a login with the name of an active account
\* that was registered locally (its password_hash is a bcrypt hash) and with
\* that account's password, during which no query failed, is answered 200,
\* whatever logins came before and whether or not the directory answers
C21_LocalFallbackAlwaysWorks ==
  (/\ auth_mode = "hybrid" /\ lg.pc = "done" /\ lg.status # 400 /\ ~lg.dbFailed
   /\ accounts[lg.id].present /\ accounts[lg.id].is_active
   /\ accounts[lg.id].password_hash = BcryptHash(lg.password))
    => lg.status = 200

\* C22 (as claimed): a token that generateToken made for a username and an
\* attribute map, validated before it expires, gives a principal with that
\* username
C22_LtpaRoundTrip ==
  (lt.phase = "validated" /\ lt.class = "minted" /\ lt.clock <= lt.expireAt)
    => lt.result.username = lt.username

C24_SignatureMismatchAccepted ==
  (/\ lt.phase = "validated" /\ lt.class \in {"signed", "missigned", "aes", "raw"}
   /\ lt.clock <= lt.expireAt)
    => /\ lt.result # NoPrincipal
       /\ lt.result.username = Str(<<"n">>)
       /\ lt.result.realm = Str(<<"R">>)
       /\ lt.result.expireTime = lt.expireAt

\* a token signed under another key was validated before its expiry and gave
\* the principal
C24_Witness ==
  /\ lt.phase = "validated" /\ lt.class = "missigned" /\ lt.clock <= lt.expireAt
  /\ lt.result.username = Str(<<"n">>)

\* C25 (as claimed): before and after every step of the admin requests, which
\* is where a validation can run, the service's keys are those derived from
\* its configured secret; a validation gives a principal only for a token
\* made under that secret, and none when the keys are absent; a configure
\* that answers 200 leaves its secret and that secret's keys in place, an
\* upload that answers 200 those of the configuration it loaded, and a delete
\* leaves no secret and no keys
C25_KeysMatchSecret ==
  [][/\ lt.keys = deriveKeys(lt.secretKey)
     /\ lt'.keys = deriveKeys(lt'.secretKey)
     /\ (lt.phase = "made" /\ lt'.phase = "validated" /\ lt'.result # NoPrincipal)
          => (lt.keys.present /\ lt.token.key = lt.secretKey.id)
     /\ \A s \in AdSlots :
          (ad[s].pc # "done" /\ ad'[s].pc = "done" /\ ad'[s].status = 200) =>
            /\ ad[s].op = "configure" => lt'.secretKey = ad[s].secretKey
            /\ (ad[s].op = "upload" /\ ad'[s].loaded # NoSecret)
                 => lt'.secretKey = ad'[s].loaded
            /\ ad[s].op = "delete" => (lt'.secretKey = NoSecret /\ ~lt'.keys.present)
    ]_vars

\* a call returned in this step
DcReturns == dc'.last.flip # dc.last.flip

\* the templates of a cached action table
CachedTemplates(cache) ==
  UNION { { actionUrls[j][2] : j \in DOMAIN actionUrls } :
            actionUrls \in { cache.actions[i][2] : i \in DOMAIN cache.actions } }

\* C26 (as claimed): a call that returns after a successful fetch, with no
\* clearCache since, returns the cache if it is fetchDiscovery, and if it is
\* buildEditorUrl a URL whose base is that of a template of the cached
\* action table, whether the remote requests fail and however old the cache
C26_CacheServesAfterOneFetch ==
  [][(dc.fetched /\ DcReturns) =>
       IF dc'.last.op = "fetchDiscovery"
       THEN dc'.last.discovery.present /\ dc'.last.discovery = dc'.cache
       ELSE /\ ~dc'.last.threw
            /\ \E template \in CachedTemplates(dc'.cache) :
                 /\ template.kind = "string"
                 /\ dc'.last.url.base = BaseUrl(template)
    ]_vars

\* the caller s, idle before, calls fetchDiscovery in this step: it waits for
\* Collabora after it, or it has returned without a remote request
DcCalls(s) ==
  /\ dc.calls[s].pc = "idle"
  /\ \A o \in DcSlots \ {s} : dc'.calls[o] = dc.calls[o]
  /\ \/ dc'.calls[s].pc = "fetch"
     \/ DcReturns /\ ~dc'.last.remote

\* C27: the cache's time is the time its fetch call began; a call made less
\* than one hour after it returns the cache as it is with no remote request,
\* and a call made one hour or more after it (or with no cache) issues a
\* remote request and returns only when that has settled
C27_CacheTtlOneHour ==
  [][/\ dc.cache.present => dc.cacheTime = dc.cache.fetchedAt
     /\ \A s \in DcSlots :
          DcCalls(s) =>
            IF dc.cache.present /\ dc.now - dc.cache.fetchedAt < 60 * 60 * 1000
            THEN /\ DcReturns /\ ~dc'.last.remote
                 /\ dc'.calls[s].pc = "idle"
                 /\ dc'.cache = dc.cache
                 /\ dc'.last.op = "fetchDiscovery" => dc'.last.discovery = dc.cache
            ELSE /\ ~DcReturns
                 /\ dc'.calls[s].pc = "fetch"
                 /\ dc'.calls[s].t = dc.now
    ]_vars

\* a call returned the half-hour-old cache with no remote request, and a call
\* made an hour after the cached fetch waits for Collabora
C27_Witness ==
  /\ dc.cache.present
  /\ dc.last.op = "fetchDiscovery" /\ ~dc.last.remote /\ dc.last.discovery = dc.cache
  /\ \E s \in DcSlots :
       /\ dc.calls[s].pc = "fetch"
       /\ dc.calls[s].t - dc.cache.fetchedAt = 60 * 60 * 1000

\* the template the action table of a discovery has for an extension: the
\* one keyed by the extension, else by its application family, else the
\* action's first; none without that action
ResolvedTemplates(discovery, ext, action) ==
  IF ~discovery.present \/ ~HasOwn(discovery.actions, action) THEN {}
  ELSE LET actionUrls == OwnValue(discovery.actions, action)
       IN IF HasOwn(actionUrls, ext) THEN {OwnValue(actionUrls, ext)}
          ELSE IF HasOwn(actionUrls, appMappings(ext))
          THEN {OwnValue(actionUrls, appMappings(ext))}
          ELSE IF actionUrls # << >> THEN {actionUrls[1][2]}
          ELSE {}

\* C28 (as claimed): every buildEditorUrl returns a URL and does not throw;
\* the URL's base is that of the template resolved for the action (or, for
\* edit, for view) by extension, family, first template, and the fixed
\* /browser/dist/cool.html path when none resolves; it carries the encoded
\* WOPISrc of /wopi/files/{fileId} and the encoded access token
C28_EditorUrlAlwaysBuilt ==
  [][(DcReturns /\ dc'.last.op = "buildEditorUrl") =>
       LET r == dc'.last
           ext == Extension(r.fileName)
           resolved == ResolvedTemplates(dc'.cache, ext, r.action)
                         \cup (IF r.action = "edit"
                               THEN ResolvedTemplates(dc'.cache, ext, "view") ELSE {})
       IN /\ ~r.threw
          /\ r.url.WOPISrc = EncodeComponent(WopiSrc(r.fileId))
          /\ r.url.access_token = EncodeComponent(r.accessToken)
          /\ IF resolved = {} THEN r.url.base = FallbackBase
             ELSE \E template \in resolved : r.url.base = BaseUrl(template)
    ]_vars

\* C29 (as claimed): for every user name, with '(', ')', '*', '\' and the
\* other characters of the alphabet, the filter built from a well-formed
\* template has as many '(' as ')', and it has exactly the '(' , ')' and '*'
\* of the template: the user name adds none
C29_FilterBalancedAndEscaped ==
  fl.phase = "built" =>
    /\ Count(fl.filter, "(") = Count(fl.filter, ")")
    /\ \A c \in {"(", ")", "*"} : Count(fl.filter, c) = Count(fl.userSearchFilter, c)

\* the files rows a step inserts
InsertedFiles == {id \in FileIds : files'[id].present /\ ~files[id].present}

\* C30: a PutRelative request's target name is the relative target if given,
\* else the suggested target, which when it starts with '.' is put in place
\* of the source name's extension (with the characters no file name may have
\* replaced); when a non-deleted file of the source's owner and folder has
\* that name and overwrite was not requested the answer is 409 with the name
\* echoed and nothing is stored, otherwise the request goes on; it inserts at
\* most one files row, with the source's owner and parent folder and that
\* name, and it has inserted it when it answers 200
C30_PutRelativeTarget ==
  [][\A s \in Slots :
       LET r == req[s]
           after == req'[s]
           source == files[r.fileId]
           wanted == IF r.relTarget # <<>> THEN r.relTarget
                     ELSE IF r.sugTarget[1] = "."
                     THEN StripExt(source.original_filename) \o r.sugTarget
                     ELSE r.sugTarget
           taken == \E id \in FileIds :
                      /\ files[id].present /\ ~files[id].is_deleted
                      /\ files[id].owner_id = source.owner_id
                      /\ files[id].parent_folder_id = source.parent_folder_id
                      /\ files[id].original_filename = r.target
       IN (r.op = "PUT_RELATIVE" /\ InFlight(s)) =>
            /\ r.target # <<>> => r.target = CleanName(wanted)
            /\ (r.pc = "pr_sel_exist" /\ after.pc = "done" /\ after.status = 409) =>
                 (taken /\ ~r.overwrite /\ after.name = r.target /\ db' = db)
            /\ (r.pc = "pr_sel_exist" /\ after.pc = "pr_mkdir") => (~taken \/ r.overwrite)
            /\ after.status = 409 => r.pc = "pr_sel_exist"
            /\ Cardinality(InsertedFiles) <= 1
            /\ \A id \in InsertedFiles :
                 /\ files'[id].owner_id = source.owner_id
                 /\ files'[id].parent_folder_id = source.parent_folder_id
                 /\ files'[id].original_filename = r.target
                 /\ ~files'[id].is_deleted
            /\ (after.pc = "done" /\ after.status = 200) =>
                 /\ after.name = r.target
                 /\ files[r.newId].present /\ ~files[r.newId].is_deleted
                 /\ files[r.newId].original_filename = r.target
                 /\ files[r.newId].owner_id = source.owner_id
    ]_vars

\* a suggested target ".p" on the source "r.o" made the file "r.p" of the
\* source's owner
C30_Witness ==
  /\ \E s \in Slots : req[s].op = "PUT_RELATIVE" /\ req[s].pc = "done"
                        /\ req[s].status = 200 /\ req[s].name = <<"r", ".", "p">>
  /\ files["f3"].present /\ files["f3"].original_filename = <<"r", ".", "p">>
  /\ files["f3"].owner_id = files["f1"].owner_id

\* the file has a lock row, and 30 minutes have passed since the Lock or
\* RefreshLock that last wrote it
Abandoned(f) ==
  /\ AnyLocks(f) # {}
  /\ \A l \in AnyLocks(f) : now - (l.expires_at - LockTTL) >= 30

\* C31: a Lock request that finds the file's lock abandoned is not refused,
\* whatever its lock value: its SELECT sends it on to the INSERT, and the
\* INSERT answers 200 with its value and leaves one lock row on the file,
\* with the value and the user of the request
C31_AbandonedLockTakenOver ==
  [][\A s \in Slots :
       LET r == req[s]
           after == req'[s]
       IN (r.op = "LOCK" /\ r.lock # Undefined /\ Abandoned(r.fileId) /\ after # r) =>
            /\ r.pc = "lock_sel" => after.pc = "lock_ins"
            /\ r.pc = "lock_ins" =>
                 /\ after.pc = "done" /\ after.status = 200 /\ after.xlock = r.lock
                 /\ {l \in file_locks' : l.file_id = r.fileId} =
                      {[file_id |-> r.fileId, lock_id |-> r.lock,
                        locked_by |-> r.tok.userId, expires_at |-> now + 30]}
    ]_vars

\* one user locked the file with "a"; more than 30 minutes later, with no
\* unlock, the other locked it with "b" and holds it
C31_Witness ==
  /\ now >= 30
  /\ \E s \in Slots : req[s].op = "LOCK" /\ req[s].pc = "done"
                        /\ req[s].status = 200 /\ req[s].xlock = "a"
  /\ \E s \in Slots : req[s].op = "LOCK" /\ req[s].pc = "done"
                        /\ req[s].status = 200 /\ req[s].xlock = "b"
  /\ \E l \in file_locks : l.file_id = "f1" /\ l.lock_id = "b" /\ l.expires_at = now + 30

\* C32: a PutFile that comes after a PutFile on the same file was answered
\* 500, carries edit permission, meets no lock conflict and no storage or
\* database failure, is answered 200
C32_FailedPutFileDoesNotBlock ==
  LET r == req["r2"]
  IN (r.op = "PUT" /\ r.pc = "done" /\ r.status # 409) => r.status = 200

\* C33: DeleteFile answers 200 only with the file marked deleted, the mark is
\* never taken back, and a request whose file is marked deleted when its
\* first query runs ends there, answered 404 (500 when the query itself
\* fails), with no row and no stored byte changed: so every operation that
\* comes after the 200 leaves the file's bytes, version, name and lock row
\* alone
C33_NothingAfterDelete ==
  [][/\ \A f \in FileIds : files[f].is_deleted => files'[f].is_deleted
     /\ \A s \in Slots :
          LET r == req[s]
              after == req'[s]
          IN /\ (after.op = "DELETE" /\ after.pc = "done" /\ after.status = 200) =>
                  files'[after.fileId].is_deleted
             /\ (r.pc = "sel_file" /\ files[r.fileId].is_deleted /\ after # r) =>
                  /\ after.pc = "done"
                  /\ after.status # 500 => after.status = 404
                  /\ UNCHANGED db
    ]_vars

C33_Witness ==
  /\ files["f1"].is_deleted
  /\ \E l \in file_locks : l.file_id = "f1"
  /\ req["r1"].op = "DELETE" /\ req["r1"].pc = "done" /\ req["r1"].status = 200
  /\ req["r2"].op = "PUT" /\ req["r2"].pc = "done" /\ req["r2"].status = 404

\* what decryptToken gives for the token at hand, and the number that
\* parseTokenContent reads from its second '%' segment
TokenContent == decryptToken(DecodeURIComponent(lt.token), lt.keys)
ExpiryField ==
  LET parts == Split(Trim(TokenContent), "%")
  IN IF Len(parts) < 2 THEN NaN ELSE ParseInt(parts[2])

C35_EmptyPasswordNeverReachesDirectory ==
  lg.password = "" =>
    /\ lg.pc \notin {"svc_bind", "search", "user_bind", "ldap_find"}
    /\ lg.entry = NoEntry
    /\ lg.entriesFound = 0
    /\ lg.ldapUser = "-"
    /\ ~lg.dirFailed

\* a login with an empty password for a name the directory knows went through
\* the directory branch, with anonymous service bind and the directory up,
\* and was answered 401
C35_Witness ==
  /\ lg.password = ""
  /\ lg.id = "alice"
  /\ lg.triedLdap
  /\ dir.up
  /\ dir.bindDN = ""
  /\ lg.pc = "done"
  /\ lg.status = 401

\* C36: the SELECT of the local branch of login, run for an account whose
\* auth_source is ldap, ltpa or ldap_ltpa, ends the request without a user,
\* whatever password was supplied
C36_LocalBranchSkipsExternalAccounts ==
  [][(/\ lg.pc = "local_sel"
      /\ accounts[lg.id].present
      /\ accounts[lg.id].auth_source \in {"ldap", "ltpa", "ldap_ltpa"}
      /\ lg' # lg) =>
       /\ lg'.pc = "done"
       /\ lg'.status \in {401, 500}
       /\ lg'.user = "-"
    ]_vars

\* the placeholder stored as dave's password hash was supplied as dave's
\* password to the local branch, and refused
C36_Witness ==
  /\ auth_mode = "local"
  /\ lg.id = "dave"
  /\ lg.password = "LDAP_AUTH"
  /\ accounts["dave"].auth_source = "ldap"
  /\ accounts["dave"].password_hash = Placeholder("LDAP_AUTH")
  /\ lg.triedLocal
  /\ lg.pc = "done"
  /\ lg.status = 401

\* C37: a step in which the remote request of a fetchDiscovery call fails
\* leaves discoveryCache and discoveryCacheTime as they were
C37_FailedRefreshLeavesCache ==
  [][\A s \in DcSlots :
       DcSettle(s, FALSE, DocEmpty) =>
         /\ dc'.cache = dc.cache
         /\ dc'.cacheTime = dc.cacheTime
    ]_vars

\* a refresh of a cache older than an hour failed, and the call returned the
\* cached data of before
C37_Witness ==
  /\ dc.last.stale
  /\ dc.last.remote
  /\ dc.last.op = "fetchDiscovery"
  /\ dc.cache.present
  /\ dc.last.discovery = dc.cache
  /\ dc.cacheTime = dc.cache.fetchedAt
  /\ dc.now - dc.cacheTime >= CACHE_TTL

\* C38: no step in which a fetchDiscovery call settles moves
\* discoveryCacheTime back: the data and time stored by a call that began
\* later are not replaced by those of a call that began earlier
C38_FetchTimeNeverDecreases ==
  [][\A s \in DcSlots :
       (dc.calls[s].pc = "fetch" /\ dc'.calls[s] # dc.calls[s]) =>
         /\ dc'.cacheTime >= dc.cacheTime
         /\ dc.cache.present => dc'.cache.fetchedAt >= dc.cache.fetchedAt
    ]_vars

\* C39: a fetchDiscovery call that waited for its remote request when
\* clearCache ran leaves the cache alone when it settles, and a call that
\* finds no cached data issues a remote request
C39_ClearedDataNotServed ==
  [][\A s \in DcSlots :
       /\ (dc.calls[s].pc = "fetch" /\ dc.calls[s].cleared
           /\ dc'.calls[s] # dc.calls[s]) =>
            dc'.cache = dc.cache
       /\ (dc.calls[s].pc = "idle" /\ dc'.calls[s] # dc.calls[s]
           /\ ~dc.cache.present) =>
            dc'.calls[s].pc = "fetch"
    ]_vars

====
